---- MODULE Spec2Model ----
(***************************************************************************)
(* Model of the prion-survey-application repository.                       *)
(*                                                                         *)
(*   Part I    the consent service           (src/server.js)               *)
(*   Part II   the admin panel               (src/connecting-prion-server.js,*)
(*             src/services/backup-service.js)                             *)
(*   Part III  the token cache                                             *)
(*   Part IV   the service functions         (src/services)                *)
(*   Part V    local backups and fullBackup  (src/services/backup-service.js)*)
(*   Part VI   searchIndividuals, sortIndividuals                          *)
(*   Part VII  the admin front end           (src/public/js/app.js)        *)
(*                                                                         *)
(* Strings of the program whose characters matter (participant ids) are    *)
(* sequences of one-character strings; the other strings are TLA+ strings. *)
(* The empty string stands for a field that is absent or empty: the code   *)
(* tests such fields with `!x`, which does not tell the two apart.         *)
(***************************************************************************)
EXTENDS Integers, Sequences, FiniteSets, TLC

VARIABLES
    \* ---- consent service: configuration read at start-up ----
    emailConfigured,   \* EMAIL_USER && EMAIL_PASS && RESEARCH_EMAIL
    SUBMISSION_TOKEN,  \* "" when not configured
    allowedOrigins,    \* set of origins of ALLOWED_ORIGINS
    \* ---- consent service: run-time state ----
    responses,         \* the rows of table `responses`, in insertion order
    hits,              \* rate limiter: requests counted per IP in the window
    pending,           \* submit handlers suspended at `await sendNotification`
    mailLog,           \* transporter.sendMail calls made so far
    now,               \* the clock read by `new Date()`
    seen,              \* history: ids for which a record was written
    succeeded,         \* history: the success replies sent, counted per id
    last               \* history: the last HTTP reply of the consent service

VARIABLES
    \* ---- admin panel: configuration and files read at start-up ----
    credentialsCache,  \* the rows of credentials.csv
    individualsFiles,  \* data/<n>_individuals.csv: list number -> rows
    dropboxConfigured, \* DROPBOX_APP_KEY && DROPBOX_APP_SECRET && DROPBOX_REFRESH_TOKEN
    \* ---- admin panel: run-time state ----
    store,             \* the session store: session id -> session
    cookie,            \* the session cookie each browser holds
    loginHits,         \* loginLimiter: login requests counted per IP
    uploads,           \* the files of uploads/documents
    dropboxCI,         \* the files of /ConnectingPrion/documents/CI
    dropboxLegacy,     \* the files of /ConnectingPrion/documents
    loggedOut,         \* history: browsers whose last login or logout that
                       \* succeeded was a logout
    adminLast          \* history: the last HTTP reply of the admin panel

adminVars == <<credentialsCache, individualsFiles, dropboxConfigured, store,
               cookie, loginHits, uploads, dropboxCI, dropboxLegacy, loggedOut,
               adminLast>>

consentVars == <<emailConfigured, SUBMISSION_TOKEN, allowedOrigins, responses,
                 hits, pending, mailLog, now, seen, succeeded, last>>

VARIABLES
    \* ---- token cache of the backup and document services ----
    tokenSecrets,      \* the three remote-storage secrets are configured
    tokenCache,        \* { token, expires_at }, process-wide
    clock,             \* now(), in minutes
    refreshing,        \* get_valid_token calls waiting for the refresh exchange
    tokenLast          \* history: the outcome of the last get_valid_token call

tokenVars == <<tokenSecrets, tokenCache, clock, refreshing, tokenLast>>

VARIABLES
    \* ---- the service functions, called directly ----
    dbx,               \* backup service: the client made from DROPBOX_ACCESS_TOKEN
                       \* exists
    svcLast            \* history: the last call of a service function

serviceVars == <<dbx, svcLast>>

VARIABLES
    \* ---- backup service: local backups ----
    backupDir,         \* the files of BACKUP_DIR
    today,             \* the clock, in days
    run,               \* the fullBackup in progress
    database           \* the content of DB_PATH, as the number of writes to it

backupVars == <<backupDir, today, run, database>>

VARIABLES
    \* ---- searchIndividuals and sortIndividuals, called directly ----
    listGiven,         \* the array of records given to the functions
    fnLast             \* history: the last call of one of them

listVars == <<listGiven, fnLast>>

VARIABLES
    \* ---- admin front end (public/js/app.js): the CI cells of the table ----
    documentStatus,    \* state.documentStatus
    tdCI,              \* the CI cell of each row of the table
    documents,         \* the ids whose CI document the server holds
    deleting,          \* handleCIDelete calls suspended at the DELETE request
    failedDeletes,     \* history: delete attempts that ended in the catch
                       \* branch, per row
    frontLast          \* history: the last step of the front end

frontVars == <<documentStatus, tdCI, documents, deleting, failedDeletes,
               frontLast>>

\* The state outside the consent service and the admin panel.
restVars == <<tokenVars, serviceVars, backupVars, listVars, frontVars>>

\* The state outside the token cache.
outsideToken == <<consentVars, adminVars, serviceVars, backupVars, listVars,
                  frontVars>>

\* The state outside the backup service.
outsideBackup == <<consentVars, adminVars, tokenVars, dbx, listVars, frontVars>>

\* The state outside the functions on record arrays.
outsideList == <<consentVars, adminVars, tokenVars, serviceVars, backupVars,
                 frontVars>>

\* The state outside the admin front end.
outsideFront == <<consentVars, adminVars, tokenVars, serviceVars, backupVars,
                  listVars>>

\* The state a service function called directly leaves alone, the folders
\* of the document store apart.
outsideService == <<consentVars, tokenVars, backupVars, listVars, frontVars,
                    credentialsCache,
                    individualsFiles, dropboxConfigured, store, cookie,
                    loginHits, uploads, loggedOut, adminLast>>

-----------------------------------------------------------------------------
(* Bounds and input samples                                                *)

MaxTime == 1
MaxInflight == 1
MaxClock == 6
MaxCallers == 2
MaxDay == 1
MaxRecords == 3
MaxAttempts == 2
MaxCounted == 2
MaxWrites == 1

Missing == ""

IdA == <<"P", "0", "1">>
IdB == <<"a", "-", "9", ".">>
IdTooShort == <<"P", "0">>
IdBadChar == <<"P", " ", "1">>
IdEmpty == <<>>

IPs == {"10.0.0.1"}
Browsers == {"b1"}
SessionIds == {"s1", "s2"}
Origins == {Missing, "https://ok", "https://evil"}

-----------------------------------------------------------------------------
(* Part I: the consent service                                             *)

VALID_RESPONSES == {"acepto", "necesito_mas_info", "rechazo"}

IdMinLen == 3
IdMaxLen == 128

IdTooLong == [i \in 1..(IdMaxLen + 1) |-> "x"]

Letters == {"a","b","c","d","e","f","g","h","i","j","k","l","m","n","o","p",
            "q","r","s","t","u","v","w","x","y","z",
            "A","B","C","D","E","F","G","H","I","J","K","L","M","N","O","P",
            "Q","R","S","T","U","V","W","X","Y","Z"}
Digits == {"0","1","2","3","4","5","6","7","8","9"}
IdChars == Letters \cup Digits \cup {"_", "-", ":", "."}

\* Variant of idRegexTest: ids of two characters pass.
idRegexTest_Short(id) ==
    /\ Len(id) >= IdMinLen - 1
    /\ Len(id) <= IdMaxLen
    /\ \A i \in 1..Len(id) : id[i] \in IdChars

\* idRegex = /^[A-Za-z0-9_\-:.]{3,128}$/
idRegexTest(id) ==
    /\ Len(id) >= IdMinLen
    /\ Len(id) <= IdMaxLen
    /\ \A i \in 1..Len(id) : id[i] \in IdChars

\* Variant of validatePayload: the token is not looked at.
validatePayload_NoToken(response, id, token) ==
    IF response = Missing \/ response \notin VALID_RESPONSES THEN "response"
    ELSE IF id = IdEmpty \/ ~idRegexTest(id) THEN "id"
    ELSE "null"

\* The message validatePayload returns, by the parameter it names; "null"
\* when the payload is valid.
validatePayload(response, id, token) ==
    IF response = Missing \/ response \notin VALID_RESPONSES THEN "response"
    ELSE IF id = IdEmpty \/ ~idRegexTest(id) THEN "id"
    ELSE IF SUBMISSION_TOKEN # Missing /\ token # SUBMISSION_TOKEN THEN "token"
    ELSE "null"

\* Variant of getStmt: no row is ever found.
getStmt_Never(table, id) == {}

\* SELECT * FROM responses WHERE participant_id = ?
getStmt(table, id) ==
    {i \in 1..Len(table) : table[i].participant_id = id}

\* INSERT INTO responses ...: the PRIMARY KEY and CHECK constraints of the
\* table, and any other failure of the database (ioError).
insertStmt(table, record, ioError) ==
    IF ioError THEN [code |-> "SQLITE_IOERR", table |-> table]
    ELSE IF getStmt(table, record.participant_id) # {}
        THEN [code |-> "SQLITE_CONSTRAINT_PRIMARYKEY", table |-> table]
    ELSE IF record.response \notin VALID_RESPONSES
        THEN [code |-> "SQLITE_CONSTRAINT_CHECK", table |-> table]
    ELSE [code |-> "OK", table |-> Append(table, record)]

\* cors({origin(origin, cb) {...}})
corsAllows(origin) ==
    \/ origin = Missing
    \/ allowedOrigins = {}
    \/ origin \in allowedOrigins

RateLimitMax == 10

\* Variant of rateLimitHit: the request is not counted.
rateLimitHit_NoCount(ip) == hits[ip]

\* rateLimit({limit: 10}): the count after this request; counts past the
\* limit are all treated alike, so the counter stops at limit + 1.
rateLimitHit(ip) ==
    IF hits[ip] > RateLimitMax THEN hits[ip] ELSE hits[ip] + 1

NoPayload == [response |-> Missing, id |-> IdEmpty, token |-> Missing]

\* The requests the clients send to /api/submit (response, id, token and the
\* User-Agent header): valid ones for two participants, with the token
\* right, wrong and absent, and ones with a defect in response or id.
SubmitRequests ==
    {[response |-> "acepto", id |-> IdA, token |-> "tok", ua |-> "UA"],
     [response |-> "rechazo", id |-> IdA, token |-> "tok", ua |-> "UA"],
     [response |-> "acepto", id |-> IdA, token |-> "bad", ua |-> "UA"],
     [response |-> "necesito_mas_info", id |-> IdB, token |-> "tok", ua |-> Missing],
     [response |-> "acepto", id |-> IdA, token |-> Missing, ua |-> "UA"],
     [response |-> "quizas", id |-> IdA, token |-> "tok", ua |-> "UA"],
     [response |-> "acepto", id |-> IdTooShort, token |-> "tok", ua |-> "UA"],
     [response |-> "acepto", id |-> IdBadChar, token |-> "tok", ua |-> "UA"],
     [response |-> "acepto", id |-> IdTooLong, token |-> "tok", ua |-> "UA"],
     [response |-> Missing, id |-> IdEmpty, token |-> Missing, ua |-> "UA"]}

\* The ids the requests carry.
SubmitIds == {rq.id : rq \in SubmitRequests}

Payload(rq) == [response |-> rq.response, id |-> rq.id, token |-> rq.token]

\* A reply: the request it answers (route, method, payload q, and the
\* client's ip, set by the action that sends the reply), the stage that
\* produced it (cors, limiter, handler) and what was sent: the status, the
\* body's ok, ts and status fields ("none", -1 when absent) and the Location
\* header.  mail is the outcome of sendNotification ("sent", "failed",
\* "skipped", "none" when it was not called), dup tells whether a record of
\* q.id had been written when the request arrived, and wrote whether the
\* request changed the table.
Reply(route, method, q, stage, status, ok, ts) ==
    [route |-> route, method |-> method, q |-> q, stage |-> stage,
     status |-> status, ok |-> ok, ts |-> ts,
     health |-> "none", location |-> <<>>, mail |-> "none", dup |-> FALSE,
     wrote |-> FALSE, ip |-> "none"]

NoReply == Reply("none", "none", NoPayload, "none", 0, "none", -1)

\* The CORS error handler: 403 {ok:false}
corsReply(route, method) ==
    Reply(route, method, NoPayload, "cors", 403, "false", -1)

\* The rate limiter's rejection: 429
limiterReply(route, method) ==
    Reply(route, method, NoPayload, "limiter", 429, "none", -1)

\* Variant of middleware: the limiter turns the 10th request down.
middleware_OffByOne(ip, origin) ==
    IF ~corsAllows(origin) THEN "cors"
    ELSE IF rateLimitHit(ip) >= RateLimitMax THEN "limiter"
    ELSE "handler"

\* The middleware a request to /api/ passes before its handler: cors, then
\* rateLimit.
middleware(ip, origin) ==
    IF ~corsAllows(origin) THEN "cors"
    ELSE IF rateLimitHit(ip) > RateLimitMax THEN "limiter"
    ELSE "handler"

userAgentOrNull(ua) == IF ua = Missing THEN "null" ELSE ua

toISOString(t) == t

SubmitRecord(q, ip, ua, ts) ==
    [participant_id |-> q.id, response |-> q.response, ts_utc |-> toISOString(ts),
     ip |-> ip, user_agent |-> userAgentOrNull(ua)]

\* Variant of postSubmitSync: a submission for an id that has a record
\* replaces the record and is answered 409.
postSubmitSync_Replace(table, q, ip, ua, ts, ioError) ==
    IF validatePayload(q.response, q.id, q.token) # "null"
        THEN [status |-> 400, table |-> table]
    ELSE IF getStmt(table, q.id) # {}
        THEN [status |-> 409,
              table |-> [i \in 1..Len(table) |->
                            IF table[i].participant_id = q.id
                            THEN SubmitRecord(q, ip, ua, ts) ELSE table[i]]]
    ELSE IF ioError THEN [status |-> 500, table |-> table]
    ELSE [status |-> 0, table |-> Append(table, SubmitRecord(q, ip, ua, ts))]

\* Variant of postSubmitSync: no look-up of an existing record, and the
\* record is written without the key constraint.
postSubmitSync_NoKey(table, q, ip, ua, ts, ioError) ==
    IF validatePayload(q.response, q.id, q.token) # "null"
        THEN [status |-> 400, table |-> table]
    ELSE IF ioError THEN [status |-> 500, table |-> table]
    ELSE [status |-> 0, table |-> Append(table, SubmitRecord(q, ip, ua, ts))]

\* app.post('/api/submit') up to the first await: the status answered at
\* once (0 when the record was inserted and the handler goes on to
\* sendNotification) and the table afterwards.
postSubmitSync(table, q, ip, ua, ts, ioError) ==
    IF validatePayload(q.response, q.id, q.token) # "null"
        THEN [status |-> 400, table |-> table]
    ELSE IF getStmt(table, q.id) # {}
        THEN [status |-> 409, table |-> table]
    ELSE LET ins == insertStmt(table, SubmitRecord(q, ip, ua, ts), ioError)
         IN  IF ins.code = "OK" THEN [status |-> 0, table |-> ins.table]
             ELSE IF ins.code = "SQLITE_CONSTRAINT_PRIMARYKEY"
                 THEN [status |-> 409, table |-> table]
             ELSE [status |-> 500, table |-> table]

\* Variant of getSubmitSync: no look-up of an existing record, and every
\* failure of the INSERT is answered 500.
getSubmitSync_NoConflict(table, q, ip, ua, ts, ioError) ==
    IF validatePayload(q.response, q.id, q.token) # "null"
        THEN [status |-> 400, table |-> table]
    ELSE LET ins == insertStmt(table, SubmitRecord(q, ip, ua, ts), ioError)
         IN  IF ins.code = "OK" THEN [status |-> 0, table |-> ins.table]
             ELSE [status |-> 500, table |-> table]

\* app.get('/api/submit') up to the first await (the same code again).
getSubmitSync(table, q, ip, ua, ts, ioError) ==
    IF validatePayload(q.response, q.id, q.token) # "null"
        THEN [status |-> 400, table |-> table]
    ELSE IF getStmt(table, q.id) # {}
        THEN [status |-> 409, table |-> table]
    ELSE LET ins == insertStmt(table, SubmitRecord(q, ip, ua, ts), ioError)
         IN  IF ins.code = "OK" THEN [status |-> 0, table |-> ins.table]
             ELSE IF ins.code = "SQLITE_CONSTRAINT_PRIMARYKEY"
                 THEN [status |-> 409, table |-> table]
             ELSE [status |-> 500, table |-> table]

\* Variant of sendNotification: it also sends when the mailer is not
\* configured, and sends a copy.
sendNotification_Copy(participantId, response, ts) ==
    <<[participantId |-> participantId, response |-> response, ts |-> ts],
      [participantId |-> participantId, response |-> response, ts |-> ts]>>

\* sendNotification up to its await: the sendMail calls it makes.
sendNotification(participantId, response, ts) ==
    IF ~emailConfigured THEN <<>>
    ELSE <<[participantId |-> participantId, response |-> response, ts |-> ts]>>

encodeURIComponent(response) ==
    CASE response = "acepto" -> "acepto"
      [] response = "necesito_mas_info" -> "necesito_mas_info"
      [] response = "rechazo" -> "rechazo"
      [] OTHER -> "%"

\* Variant of postSubmitReply: the reply carries the time of the reply.
postSubmitReply_Now(p, mail) ==
    [Reply("submit", "POST", p.q, "handler", 200, "true", toISOString(now))
        EXCEPT !.mail = mail, !.dup = p.dup, !.wrote = TRUE]

\* The end of app.post('/api/submit') once sendNotification has settled
\* with outcome mail: a failure is caught and logged, then res.json.
postSubmitReply(p, mail) ==
    [Reply("submit", "POST", p.q, "handler", 200, "true", p.ts)
        EXCEPT !.mail = mail, !.dup = p.dup, !.wrote = TRUE]

\* Variant of getSubmitReply: a failure of sendNotification is not caught
\* and the request ends with 500.
getSubmitReply_MailFatal(p, mail) ==
    IF mail = "failed"
    THEN [Reply("submit", "GET", p.q, "handler", 500, "false", -1)
             EXCEPT !.mail = mail, !.dup = p.dup, !.wrote = TRUE]
    ELSE [Reply("submit", "GET", p.q, "handler", 302, "none", -1)
             EXCEPT !.mail = mail, !.dup = p.dup, !.wrote = TRUE,
                    !.location = <<"/response.html?status=ok&response=",
                                   encodeURIComponent(p.q.response)>>]

\* The end of app.get('/api/submit'): res.redirect(target).
getSubmitReply(p, mail) ==
    [Reply("submit", "GET", p.q, "handler", 302, "none", -1)
        EXCEPT !.mail = mail, !.dup = p.dup, !.wrote = TRUE,
               !.location = <<"/response.html?status=ok&response=",
                              encodeURIComponent(p.q.response)>>]

\* The reply of a submit handler that ends before sendNotification.
submitErrorReply(method, q, status, dup) ==
    [Reply("submit", method, q, "handler", status, "false", -1)
        EXCEPT !.dup = dup]

-----------------------------------------------------------------------------
(* Actions of the consent service                                          *)

\* The configurations the service is started with: everything configured,
\* and nothing configured.
ConsentConfigs ==
    {[email |-> TRUE, token |-> "tok", origins |-> {"https://ok"}],
     [email |-> FALSE, token |-> Missing, origins |-> {}]}

\* The consent service after start-up, with one of the given configurations.
consentStart(configs) ==
    /\ \E c \in configs :
          /\ emailConfigured = c.email
          /\ SUBMISSION_TOKEN = c.token
          /\ allowedOrigins = c.origins
    /\ responses = <<>>
    /\ hits = [ip \in IPs |-> 0]
    /\ pending = {}
    /\ mailLog = <<>>
    /\ now = 0
    /\ seen = {}
    /\ succeeded = [id \in SubmitIds |-> 0]
    /\ last = NoReply

consentConfig == <<emailConfigured, SUBMISSION_TOKEN, allowedOrigins>>

\* A request to /api/submit that the middleware lets through.
SubmitHandler(method, ip) ==
    \E rq \in SubmitRequests :
    \E ioError \in (IF validatePayload(rq.response, rq.id, rq.token) = "null"
                       /\ getStmt(responses, rq.id) = {}
                    THEN BOOLEAN ELSE {FALSE}) :
        LET q == Payload(rq)
            r == IF method = "POST"
                 THEN postSubmitSync(responses, q, ip, rq.ua, now, ioError)
                 ELSE getSubmitSync(responses, q, ip, rq.ua, now, ioError)
            dup == q.id \in seen
            mails == sendNotification(q.id, q.response, toISOString(now))
        IN  /\ responses' = r.table
            /\ IF r.status = 0
               THEN /\ Cardinality(pending) < MaxInflight
                    /\ mailLog' = mailLog \o mails
                    /\ pending' = pending \cup
                          {[method |-> method, q |-> q, ts |-> toISOString(now),
                            ip |-> ip,
                            dup |-> dup,
                            mail |-> IF mails = <<>> THEN "skipped" ELSE "sending"]}
                    /\ seen' = seen \cup {q.id}
                    /\ last' = last
               ELSE /\ last' = [submitErrorReply(method, q, r.status,
                                        IF r.status = 400 THEN FALSE ELSE dup)
                                   EXCEPT !.wrote = (r.table # responses),
                                          !.ip = ip]
                    /\ UNCHANGED <<mailLog, pending, seen>>

Submit(method) ==
    \E ip \in IPs :
    \E stage \in {middleware(ip, origin) : origin \in Origins} :
        /\ hits' = IF stage = "cors" THEN hits
                   ELSE [hits EXCEPT ![ip] = rateLimitHit(ip)]
        /\ IF stage = "cors"
           THEN /\ last' = [corsReply("submit", method) EXCEPT !.ip = ip]
                /\ UNCHANGED <<responses, pending, mailLog, seen>>
           ELSE IF stage = "limiter"
           THEN /\ last' = [limiterReply("submit", method) EXCEPT !.ip = ip]
                /\ UNCHANGED <<responses, pending, mailLog, seen>>
           ELSE SubmitHandler(method, ip)
        /\ UNCHANGED <<consentConfig, now, succeeded>>

\* POST /api/submit
PostSubmit == Submit("POST") /\ UNCHANGED <<adminVars, restVars>>

\* GET /api/submit
GetSubmit == Submit("GET") /\ UNCHANGED <<adminVars, restVars>>

\* sendNotification settles and the suspended handler answers.
SubmitResume ==
    \E p \in pending :
    \E mail \in (IF p.mail = "sending" THEN {"sent", "failed"} ELSE {"skipped"}) :
        /\ pending' = pending \ {p}
        /\ last' = [(IF p.method = "POST" THEN postSubmitReply(p, mail)
                     ELSE getSubmitReply(p, mail)) EXCEPT !.ip = p.ip]
        /\ succeeded' = IF last'.status \in {200, 302}
                            /\ succeeded[p.q.id] < MaxCounted
                         THEN [succeeded EXCEPT ![p.q.id] = @ + 1]
                         ELSE succeeded
        /\ UNCHANGED <<consentConfig, responses, hits, mailLog, now, seen>>
        /\ UNCHANGED <<adminVars, restVars>>

\* app.get('/api/health')
healthReply(t) ==
    [Reply("health", "GET", NoPayload, "handler", 200, "none", toISOString(t))
        EXCEPT !.health = "ok"]

\* GET /api/health
Health ==
    \E ip \in IPs :
    \E stage \in {middleware(ip, origin) : origin \in Origins} :
        /\ hits' = IF stage = "cors" THEN hits
                   ELSE [hits EXCEPT ![ip] = rateLimitHit(ip)]
        /\ last' = [(IF stage = "cors" THEN corsReply("health", "GET")
                     ELSE IF stage = "limiter" THEN limiterReply("health", "GET")
                     ELSE healthReply(now)) EXCEPT !.ip = ip]
        /\ UNCHANGED <<consentConfig, responses, pending, mailLog, now, seen,
                       succeeded>>
        /\ UNCHANGED <<adminVars, restVars>>

\* Time passes.
Tick ==
    /\ now < MaxTime
    /\ now' = now + 1
    /\ UNCHANGED <<consentConfig, responses, hits, pending, mailLog, seen,
                   succeeded, last>>
    /\ UNCHANGED <<adminVars, restVars>>

\* A rate-limit window (windowMs) ends: the counts start again.
WindowReset ==
    /\ \E ip \in IPs : hits[ip] > 0
    /\ hits' = [ip \in IPs |-> 0]
    /\ UNCHANGED <<consentConfig, responses, pending, mailLog, now, seen,
                   succeeded, last>>
    /\ UNCHANGED <<adminVars, restVars>>

-----------------------------------------------------------------------------
(* Part II: the admin panel                                                *)

\* credentials.csv as loaded by loadCredentials
Credentials ==
    <<[id_credentials |-> "1", user |-> "ana", password |-> "pw1", lang |-> "es",
       gender |-> "f", name |-> "Ana", last_names |-> "Ruiz",
       full_name |-> "Ana Ruiz", role |-> "admin", list |-> "1"],
      [id_credentials |-> "2", user |-> "jon", password |-> "Pw1", lang |-> "eu",
       gender |-> "m", name |-> "Jon", last_names |-> "Etxea",
       full_name |-> "Jon Etxea", role |-> "user", list |-> "2"]>>

\* credentials.csv with two more users: one whose list has no file of its
\* own and one whose list cell is empty.
CredentialsOfLists ==
    Credentials \o
    <<[id_credentials |-> "3", user |-> "eva", password |-> "pw3", lang |-> "es",
       gender |-> "f", name |-> "Eva", last_names |-> "Sanz",
       full_name |-> "Eva Sanz", role |-> "user", list |-> "3"],
      [id_credentials |-> "4", user |-> "unai", password |-> "pw4", lang |-> "eu",
       gender |-> "m", name |-> "Unai", last_names |-> "Agirre",
       full_name |-> "Unai Agirre", role |-> "user", list |-> Missing]>>

\* The bodies sent to /api/login: the right pairs, pairs that differ
\* from a record in case or take the password of another record, and
\* bodies that lack a field.
LoginRequests ==
    {[username |-> "ana", password |-> "pw1"],
     [username |-> "jon", password |-> "Pw1"],
     [username |-> "eva", password |-> "pw3"],
     [username |-> "unai", password |-> "pw4"],
     [username |-> "Ana", password |-> "pw1"],
     [username |-> "ana", password |-> "Pw1"],
     [username |-> "jon", password |-> "pw1"],
     [username |-> "ana", password |-> Missing],
     [username |-> Missing, password |-> "pw1"]}

\* <n>_individuals.csv as read by readCSV
IndividualsList1 ==
    <<[id |-> "1", id_osakidetza |-> "TXPR001", name |-> "Miren"],
      [id |-> "2", id_osakidetza |-> "TXPR002", name |-> "Iker"]>>
IndividualsList2 ==
    <<[id |-> "7", id_osakidetza |-> "TXPR007", name |-> "Ane"]>>

\* The data directory holding the list files whose numbers are in S.
ListFiles(S) ==
    [n \in S |-> IF n = 1 THEN IndividualsList1 ELSE IndividualsList2]

DocIds == {"TXPR001", "TXPR404", "CI"}

\* The multipart requests sent to /api/upload-document: the file (its
\* extension and whether its MIME type is an allowed one; ext = "" when no
\* file is sent) and the id_ci and id_osakidetza fields.
UploadRequests ==
    {[ext |-> ".pdf", mimeOk |-> TRUE, id_ci |-> "TXPR001", id_osakidetza |-> "TXPR001"],
     [ext |-> ".pdf", mimeOk |-> TRUE, id_ci |-> Missing, id_osakidetza |-> "TXPR001"],
     [ext |-> ".pdf", mimeOk |-> TRUE, id_ci |-> "TXPR001", id_osakidetza |-> Missing],
     [ext |-> ".exe", mimeOk |-> FALSE, id_ci |-> "TXPR001", id_osakidetza |-> "TXPR001"],
     [ext |-> Missing, mimeOk |-> FALSE, id_ci |-> "TXPR001", id_osakidetza |-> "TXPR001"]}

Null == [null |-> TRUE]
Undefined == [undefined |-> TRUE]

Min(S) == CHOOSE x \in S : \A y \in S : x <= y

\* Variant of userWithoutPassword: the record is returned as it is.
userWithoutPassword_Whole(user) == user

\* const { password: _, ...userWithoutPassword } = user
userWithoutPassword(user) ==
    [f \in DOMAIN user \ {"password"} |-> user[f]]

\* Variant of authenticateUser: user and password are compared without
\* regard to case.
authenticateUser_IgnoreCase(credentials, username, password) ==
    LET lower(str) == CASE str = "Ana" -> "ana"
                        [] str = "Pw1" -> "pw1"
                        [] OTHER -> str
        found == {i \in 1..Len(credentials) :
                     /\ lower(credentials[i].user) = lower(username)
                     /\ lower(credentials[i].password) = lower(password)}
    IN  IF found = {} THEN Null
        ELSE userWithoutPassword(credentials[Min(found)])

\* authenticateUser: the first record whose user and password both equal
\* the ones given, without its password; Null when there is none.
authenticateUser(credentials, username, password) ==
    LET found == {i \in 1..Len(credentials) :
                     /\ credentials[i].user = username
                     /\ credentials[i].password = password}
    IN  IF found = {} THEN Null
        ELSE userWithoutPassword(credentials[Min(found)])

\* A session that was never written to.
EmptySession == [cookie |-> "maxAge=24h"]

\* The session express-session gives the request of browser b: the stored
\* one its cookie names, else a new one.
reqSession(b) ==
    IF cookie[b] \in DOMAIN store THEN store[cookie[b]] ELSE EmptySession

\* req.session.user
sessionUser(session) ==
    IF "user" \in DOMAIN session THEN session.user ELSE Undefined

\* Variant of requireAuth: any request that has a session passes.
requireAuth_AnySession(session) ==
    "cookie" \in DOMAIN session

\* requireAuth: whether next() is called
requireAuth(session) ==
    sessionUser(session) # Undefined

\* The id of the session of a request of browser b: the stored one, else a
\* new id no other browser holds.
sessionIdOf(b) ==
    IF cookie[b] \in DOMAIN store THEN cookie[b]
    ELSE CHOOSE sid \in SessionIds :
            /\ sid \notin DOMAIN store
            /\ \A b2 \in Browsers \ {b} : cookie[b2] # sid

\* store.set(sid, session)
storeSet(st, sid, session) ==
    [x \in DOMAIN st \cup {sid} |-> IF x = sid THEN session ELSE st[x]]

\* Variant of storeDestroy: the session stays in the store.
storeDestroy_Keep(st, sid, failed) == st

\* store.destroy(sid), as req.session.destroy calls it; failed tells
\* whether the store reports an error.
storeDestroy(st, sid, failed) ==
    IF failed THEN st ELSE [x \in DOMAIN st \ {sid} |-> st[x]]

LoginLimitMax == 10

loginLimitHit(ip) ==
    IF loginHits[ip] > LoginLimitMax THEN loginHits[ip] ELSE loginHits[ip] + 1

BrowserIP(b) == "10.0.0.1"

\* A reply of the admin panel: the request it answers (route, browser and
\* parameters req), the status and the body.  authed tells whether the
\* session of the request held a user when the request arrived.
AdminReply(route, b, req, status, body, authed) ==
    [route |-> route, browser |-> b, req |-> req, status |-> status,
     body |-> body, authed |-> authed]

NoReq == [none |-> TRUE]

NoAdminReply == AdminReply("none", "none", NoReq, 0, [none |-> TRUE], FALSE)

Authed(b) ==
    /\ cookie[b] \in DOMAIN store
    /\ "user" \in DOMAIN store[cookie[b]]

\* The user object of the login reply.
loginUserBody(user) ==
    [id_credentials |-> user.id_credentials, user |-> user.user,
     lang |-> user.lang, gender |-> user.gender, name |-> user.name,
     last_names |-> user.last_names, full_name |-> user.full_name,
     role |-> user.role,
     list |-> IF user.list = Missing THEN "1" ELSE user.list]

\* The handler of app.post('/api/login'): the status, the body and the
\* session afterwards.
loginHandler(credentials, session, username, password) ==
    IF username = Missing \/ password = Missing
    THEN [status |-> 400, session |-> session,
          body |-> [error |-> "Username and password required"]]
    ELSE LET user == authenticateUser(credentials, username, password)
         IN  IF user # Null
             THEN [status |-> 200,
                   session |-> [f \in DOMAIN session \cup {"user"} |->
                                   IF f = "user" THEN user ELSE session[f]],
                   body |-> [success |-> TRUE, user |-> loginUserBody(user)]]
             ELSE [status |-> 401, session |-> session,
                   body |-> [error |-> "Invalid credentials"]]

adminConfig == <<credentialsCache, individualsFiles, dropboxConfigured>>
adminFiles == <<uploads, dropboxCI, dropboxLegacy>>

\* The admin panel after start-up: credentials and lists loaded, no session,
\* Dropbox configured or not, and the legacy folder as it was left.
adminStartWith(credentials, lists, dropbox, legacy) ==
    /\ credentialsCache \in credentials
    /\ individualsFiles \in {ListFiles(S) : S \in lists}
    /\ dropboxConfigured \in dropbox
    /\ store = [sid \in {} |-> EmptySession]
    /\ cookie = [b \in Browsers |-> "none"]
    /\ loginHits = [ip \in IPs |-> 0]
    /\ uploads = {}
    /\ dropboxCI = {}
    /\ dropboxLegacy \in legacy
    /\ loggedOut = {}
    /\ adminLast = NoAdminReply

\* The start with credentials.csv of two users and both list files there.
adminStart(dropbox, legacy) ==
    adminStartWith({Credentials}, {{1, 2}}, dropbox, legacy)

\* POST /api/login
Login ==
    \E b \in Browsers :
        /\ loginHits' = [loginHits EXCEPT ![BrowserIP(b)] = loginLimitHit(BrowserIP(b))]
        /\ IF loginLimitHit(BrowserIP(b)) > LoginLimitMax
           THEN /\ adminLast' = AdminReply("login", b, NoReq, 429,
                        [error |-> "Too many login attempts, please try again later"],
                        Authed(b))
                /\ UNCHANGED <<store, cookie, loggedOut>>
           ELSE \E rq \in LoginRequests :
                  LET session == reqSession(b)
                      r == loginHandler(credentialsCache, session, rq.username,
                                        rq.password)
                  IN  /\ adminLast' = AdminReply("login", b, rq,
                              r.status, r.body, Authed(b))
                      /\ IF r.session # session
                         THEN /\ store' = storeSet(store, sessionIdOf(b), r.session)
                              /\ cookie' = [cookie EXCEPT ![b] = sessionIdOf(b)]
                         ELSE UNCHANGED <<store, cookie>>
                      /\ loggedOut' = IF r.status = 200 THEN loggedOut \ {b}
                                      ELSE loggedOut
        /\ UNCHANGED <<adminConfig, adminFiles>>
        /\ UNCHANGED <<consentVars, restVars>>

\* POST /api/logout: req.session.destroy, then the reply of its callback.
Logout ==
    \E b \in Browsers, failed \in BOOLEAN :
        /\ store' = storeDestroy(store, sessionIdOf(b), failed)
        /\ adminLast' = IF failed
                        THEN AdminReply("logout", b, NoReq, 500,
                                        [error |-> "Error logging out"], Authed(b))
                        ELSE AdminReply("logout", b, NoReq, 200,
                                        [success |-> TRUE], Authed(b))
        /\ loggedOut' = IF failed THEN loggedOut ELSE loggedOut \cup {b}
        /\ UNCHANGED <<cookie, loginHits, adminConfig, adminFiles>>
        /\ UNCHANGED <<consentVars, restVars>>

\* The session of a browser reaches its maxAge and the store drops it.
SessionExpire ==
    \E sid \in DOMAIN store :
        /\ store' = storeDestroy(store, sid, FALSE)
        /\ UNCHANGED <<cookie, loginHits, adminConfig, adminFiles, adminLast,
                       loggedOut>>
        /\ UNCHANGED <<consentVars, restVars>>

\* The reply of requireAuth when it does not call next().
unauthorized(route, b, req) ==
    AdminReply(route, b, req, 401, [error |-> "Unauthorized"], Authed(b))

\* GET /api/user
GetUser ==
    \E b \in Browsers :
        LET session == reqSession(b) IN
        /\ adminLast' = IF requireAuth(session)
                        THEN AdminReply("user", b, NoReq, 200,
                                        [user |-> sessionUser(session)], Authed(b))
                        ELSE unauthorized("user", b, NoReq)
        /\ UNCHANGED <<store, cookie, loginHits, adminConfig, adminFiles, loggedOut>>
        /\ UNCHANGED <<consentVars, restVars>>

NaN == -1

\* parseInt(userList, 10) on the list values of the credential records
parseInt(str) ==
    CASE str = "1" -> 1
      [] str = "2" -> 2
      [] str = "3" -> 3
      [] OTHER -> NaN

\* Variant of loadIndividualsForList: list 1 is read whatever the number.
loadIndividualsForList_First(listNumber) ==
    IF 1 \in DOMAIN individualsFiles THEN individualsFiles[1]
    ELSE <<>>

\* loadIndividualsForList: the rows of the list's file, those of list 1
\* when the list has no file, no rows when list 1 has none either.
loadIndividualsForList(listNumber) ==
    IF listNumber \in DOMAIN individualsFiles THEN individualsFiles[listNumber]
    ELSE IF 1 \in DOMAIN individualsFiles THEN individualsFiles[1]
    ELSE <<>>

\* req.session.user.list || '1', which throws when the session has no user
userListOf(session) ==
    IF sessionUser(session) = Undefined THEN "TypeError"
    ELSE IF sessionUser(session).list = Missing THEN "1"
    ELSE sessionUser(session).list

\* The handler of app.get('/api/individuals'), without search and sortBy.
individualsHandler(session) ==
    IF userListOf(session) = "TypeError"
    THEN [status |-> 500, body |-> [error |-> "Error fetching data"]]
    ELSE LET results == loadIndividualsForList(parseInt(userListOf(session)))
         IN  [status |-> 200,
              body |-> [success |-> TRUE, data |-> results, total |-> Len(results)]]

\* GET /api/individuals
GetIndividuals ==
    \E b \in Browsers :
        LET session == reqSession(b)
            r == individualsHandler(session)
        IN
        /\ adminLast' = IF requireAuth(session)
                        THEN AdminReply("individuals", b, NoReq, r.status, r.body,
                                        Authed(b))
                        ELSE unauthorized("individuals", b, NoReq)
        /\ UNCHANGED <<store, cookie, loginHits, adminConfig, adminFiles, loggedOut>>
        /\ UNCHANGED <<consentVars, restVars>>

\* The handler of app.get('/api/individuals/:id')
individualHandler(session, id) ==
    IF userListOf(session) = "TypeError"
    THEN [status |-> 500, body |-> [error |-> "Error fetching data"]]
    ELSE LET individuals == loadIndividualsForList(parseInt(userListOf(session)))
             found == {i \in 1..Len(individuals) :
                          \/ individuals[i].id = id
                          \/ individuals[i].id_osakidetza = id}
         IN  IF found # {}
             THEN [status |-> 200,
                   body |-> [success |-> TRUE, data |-> individuals[Min(found)]]]
             ELSE [status |-> 404, body |-> [error |-> "Individual not found"]]

\* GET /api/individuals/:id
GetIndividual ==
    \E b \in Browsers, id \in {"1", "TXPR007"} :
        LET session == reqSession(b)
            r == individualHandler(session, id)
        IN
        /\ adminLast' = IF requireAuth(session)
                        THEN AdminReply("individual", b, [id |-> id], r.status,
                                        r.body, Authed(b))
                        ELSE unauthorized("individual", b, [id |-> id])
        /\ UNCHANGED <<store, cookie, loginHits, adminConfig, adminFiles, loggedOut>>
        /\ UNCHANGED <<consentVars, restVars>>

\* How the calls to the Dropbox API go in one request: whether listing
\* each folder succeeds and whether the upload or deletion itself does.
RemoteOutcomes ==
    {[listCI |-> TRUE, listLegacy |-> TRUE, op |-> TRUE],
     [listCI |-> FALSE, listLegacy |-> TRUE, op |-> TRUE],
     [listCI |-> TRUE, listLegacy |-> FALSE, op |-> TRUE],
     [listCI |-> TRUE, listLegacy |-> TRUE, op |-> FALSE]}

AllOk == [listCI |-> TRUE, listLegacy |-> TRUE, op |-> TRUE]

\* The outcomes to consider for a request of browser b: the Dropbox API is
\* called only behind requireAuth and when Dropbox is configured.
RemoteCalls(b) ==
    IF requireAuth(reqSession(b)) /\ dropboxConfigured THEN RemoteOutcomes
    ELSE {AllOk}

\* A stored file is <<name without extension, extension>>.
\* fileFilter: the extension and the MIME type both match
\* /pdf|jpg|jpeg|png|doc|docx/
fileFilter(ext, mimeOk) ==
    ext \in {".pdf", ".jpg", ".jpeg", ".png", ".doc", ".docx"} /\ mimeOk

\* multer's filename: `${req.body.id_ci || req.params.id_ci}${ext}`
multerFilename(id_ci, ext) ==
    <<IF id_ci = Missing THEN "undefined" ELSE id_ci, ext>>

\* /ConnectingPrion/documents/CI is a sub-folder of /ConnectingPrion/documents:
\* while it exists, the listing of the latter has an entry for it, named
\* "CI" and without extension.
CIFolder == <<"CI", "">>

\* The entries of a folder whose name without extension is the id.
entriesNamed(folder, id) == {f \in folder : f[1] = id}

\* uploadToDropbox: whether it throws, and the two folders and the share url
\* afterwards. The upload creates the CI folder when it is missing.
uploadToDropbox(ci, legacy, localFile, idOsakidetza, remote) ==
    IF ~dropboxConfigured \/ ~remote.op
    THEN [thrown |-> TRUE, ci |-> ci, legacy |-> legacy, shareUrl |-> <<>>]
    ELSE [thrown |-> FALSE, ci |-> ci \cup {<<idOsakidetza, localFile[2]>>},
          legacy |-> legacy \cup {CIFolder},
          shareUrl |-> <<"dropbox", "CI", idOsakidetza, localFile[2]>>]

\* Variant of uploadDocument: the local file is kept when the remote upload
\* succeeds.
uploadDocument_KeepLocal(ups, ci, legacy, rq, remote) ==
    IF rq.ext = Missing
    THEN [status |-> 400, body |-> [error |-> "No file uploaded"],
          uploads |-> ups, ci |-> ci, legacy |-> legacy]
    ELSE IF ~fileFilter(rq.ext, rq.mimeOk)
    THEN [status |-> 500, body |-> [error |-> "Internal server error"],
          uploads |-> ups, ci |-> ci, legacy |-> legacy]
    ELSE LET file == multerFilename(rq.id_ci, rq.ext)
             stored == ups \cup {file}
         IN  IF rq.id_osakidetza = Missing
             THEN [status |-> 400, body |-> [error |-> "id_osakidetza is required"],
                   uploads |-> stored, ci |-> ci, legacy |-> legacy]
             ELSE LET up == uploadToDropbox(ci, legacy, file, rq.id_osakidetza,
                                            remote)
                  IN  [status |-> 200,
                       body |-> [success |-> TRUE, filename |-> file,
                                 url |-> IF up.thrown
                                         THEN <<"/documents/", file>>
                                         ELSE up.shareUrl,
                                 warning |-> up.thrown],
                       uploads |-> stored, ci |-> up.ci, legacy |-> up.legacy]

\* app.post('/api/upload-document') behind requireAuth: upload.single and
\* the handler.
uploadDocument(ups, ci, legacy, rq, remote) ==
    IF rq.ext = Missing
    THEN [status |-> 400, body |-> [error |-> "No file uploaded"],
          uploads |-> ups, ci |-> ci, legacy |-> legacy]
    ELSE IF ~fileFilter(rq.ext, rq.mimeOk)
    THEN [status |-> 500, body |-> [error |-> "Internal server error"],
          uploads |-> ups, ci |-> ci, legacy |-> legacy]
    ELSE LET file == multerFilename(rq.id_ci, rq.ext)
             stored == ups \cup {file}
         IN  IF rq.id_osakidetza = Missing
             THEN [status |-> 400, body |-> [error |-> "id_osakidetza is required"],
                   uploads |-> stored, ci |-> ci, legacy |-> legacy]
             ELSE LET up == uploadToDropbox(ci, legacy, file, rq.id_osakidetza,
                                            remote)
                  IN  IF ~up.thrown
                      THEN [status |-> 200,
                            body |-> [success |-> TRUE, filename |-> file,
                                      url |-> up.shareUrl, warning |-> FALSE],
                            uploads |-> stored \ {file}, ci |-> up.ci,
                            legacy |-> up.legacy]
                      ELSE [status |-> 200,
                            body |-> [success |-> TRUE, filename |-> file,
                                      url |-> <<"/documents/", file>>,
                                      warning |-> TRUE],
                            uploads |-> stored, ci |-> ci, legacy |-> legacy]

\* POST /api/upload-document
UploadDocument ==
    \E b \in Browsers, rq \in UploadRequests :
    \E remote \in RemoteCalls(b) :
        LET session == reqSession(b)
            r == uploadDocument(uploads, dropboxCI, dropboxLegacy, rq, remote)
        IN
        /\ IF requireAuth(session)
           THEN /\ adminLast' = AdminReply("upload-document", b, rq, r.status,
                                           r.body, Authed(b))
                /\ uploads' = r.uploads
                /\ dropboxCI' = r.ci
                /\ dropboxLegacy' = r.legacy
           ELSE /\ adminLast' = unauthorized("upload-document", b, rq)
                /\ UNCHANGED <<uploads, dropboxCI, dropboxLegacy>>
        /\ UNCHANGED <<store, cookie, loginHits, adminConfig, loggedOut>>
        /\ UNCHANGED <<consentVars, restVars>>

\* What /ConnectingPrion/documents holds when the admin panel starts: the CI
\* folder that ensureDropboxFolder makes sure of, alone or beside a document
\* of the time before the CI folder, or nothing when the folder could not be
\* created.
LegacyFolders ==
    {{}, {CIFolder}, {CIFolder, <<"TXPR001", ".pdf">>}}

\* The loop over foldersToCheck of checkDocumentInDropbox and
\* deleteFromDropbox: the entries that can be the one found, each with its
\* folder; a folder whose listing fails is skipped. Listing the CI folder
\* fails when the folder does not exist. The entries of a listing are files
\* and sub-folders alike, and `find` looks at their names only.
dropboxFind(ci, legacy, id, remote) ==
    IF remote.listCI /\ CIFolder \in legacy /\ entriesNamed(ci, id) # {}
    THEN {<<"CI", f>> : f \in entriesNamed(ci, id)}
    ELSE IF remote.listLegacy /\ entriesNamed(legacy, id) # {}
    THEN {<<"legacy", f>> : f \in entriesNamed(legacy, id)}
    ELSE {}

\* Variant of deleteFromDropbox: it returns without deleting the entry.
deleteFromDropbox_LeavesEntry(ci, legacy, found, remote) ==
    IF ~dropboxConfigured \/ found = <<>> \/ ~remote.op
    THEN [thrown |-> TRUE, ci |-> ci, legacy |-> legacy]
    ELSE [thrown |-> FALSE, ci |-> ci, legacy |-> legacy]

\* deleteFromDropbox, found being the entry its loop found (<<>> when
\* none): whether it throws, and the folders afterwards. filesDeleteV2
\* removes the entry at path_display; when that is the CI folder, the
\* folder goes with all it holds.
deleteFromDropbox(ci, legacy, found, remote) ==
    IF ~dropboxConfigured \/ found = <<>> \/ ~remote.op
    THEN [thrown |-> TRUE, ci |-> ci, legacy |-> legacy]
    ELSE [thrown |-> FALSE,
          ci |-> IF found[1] = "CI" THEN ci \ {found[2]}
                 ELSE IF found[2] = CIFolder THEN {} ELSE ci,
          legacy |-> IF found[1] = "legacy" THEN legacy \ {found[2]} ELSE legacy]

\* Variant of deleteDocument: when the remote deletion throws, the local
\* one is not attempted.
deleteDocument_RemoteFirst(ups, ci, legacy, found, localFound, remote) ==
    LET del == deleteFromDropbox(ci, legacy, found, remote) IN
    IF del.thrown
    THEN [uploads |-> ups, ci |-> ci, legacy |-> legacy, status |-> 404,
          body |-> [error |-> "Document not found"]]
    ELSE [uploads |-> IF localFound # <<>> THEN ups \ {localFound} ELSE ups,
          ci |-> del.ci, legacy |-> del.legacy, status |-> 200,
          body |-> [success |-> TRUE,
                    deletedFrom |-> IF localFound # <<>> THEN "both"
                                    ELSE "dropbox"]]

\* The handler of app.delete('/api/delete-document/:id_osakidetza'), found
\* and localFound being what the two searches find (<<>> when nothing).
deleteDocument(ups, ci, legacy, found, localFound, remote) ==
    LET del == deleteFromDropbox(ci, legacy, found, remote)
        deletedFromDropbox == ~del.thrown
        deletedFromLocal == localFound # <<>>
    IN  [uploads |-> IF deletedFromLocal THEN ups \ {localFound} ELSE ups,
         ci |-> del.ci, legacy |-> del.legacy,
         status |-> IF ~deletedFromDropbox /\ ~deletedFromLocal THEN 404 ELSE 200,
         body |-> IF ~deletedFromDropbox /\ ~deletedFromLocal
                  THEN [error |-> "Document not found"]
                  ELSE [success |-> TRUE,
                        deletedFrom |-> IF deletedFromDropbox
                                        THEN (IF deletedFromLocal THEN "both"
                                              ELSE "dropbox")
                                        ELSE "local"]]

OrNone(S) == IF S = {} THEN {<<>>} ELSE S

\* History: the reply, with the upload or delete that was answered with
\* success just before it, if one was.
AfterPrevious(reply) ==
    reply @@
    [previous |->
        IF adminLast.route = "upload-document" /\ adminLast.status = 200
        THEN [route |-> adminLast.route, id |-> adminLast.req.id_osakidetza]
        ELSE IF adminLast.route = "delete-document" /\ adminLast.status = 200
        THEN [route |-> adminLast.route, id |-> adminLast.req.id]
        ELSE [route |-> "other", id |-> ""]]

\* History: the reply, with what the three places held when the request
\* arrived.
WithBefore(reply) ==
    reply @@ [before |-> [ci |-> dropboxCI, legacy |-> dropboxLegacy,
                          uploads |-> uploads]]

\* DELETE /api/delete-document/:id_osakidetza
DeleteDocument ==
    \E b \in Browsers, id \in DocIds :
    \E remote \in RemoteCalls(b) :
    \E found \in OrNone(IF dropboxConfigured
                        THEN dropboxFind(dropboxCI, dropboxLegacy, id, remote)
                        ELSE {}),
       localFound \in OrNone(entriesNamed(uploads, id)) :
        LET session == reqSession(b)
            r == deleteDocument(uploads, dropboxCI, dropboxLegacy, found,
                                localFound, remote)
        IN
        /\ IF requireAuth(session)
           THEN /\ adminLast' = WithBefore(AdminReply("delete-document", b,
                                                      [id |-> id], r.status,
                                                      r.body, Authed(b)))
                /\ uploads' = r.uploads
                /\ dropboxCI' = r.ci
                /\ dropboxLegacy' = r.legacy
           ELSE /\ adminLast' = unauthorized("delete-document", b, [id |-> id])
                /\ UNCHANGED <<uploads, dropboxCI, dropboxLegacy>>
        /\ UNCHANGED <<store, cookie, loginHits, adminConfig, loggedOut>>
        /\ UNCHANGED <<consentVars, restVars>>

\* checkDocumentInDropbox, found being the entry its loop found.
checkDocumentInDropbox(found) ==
    IF ~dropboxConfigured \/ found = <<>>
    THEN [exists |-> FALSE]
    ELSE [exists |-> TRUE, filename |-> found[2],
          shareUrl |-> <<"dropbox", found[1], found[2][1], found[2][2]>>]

\* The handler of app.get('/api/check-document/:id_osakidetza')
checkDocument(found, localFound) ==
    LET dropboxResult == checkDocumentInDropbox(found) IN
    IF dropboxResult.exists
    THEN [success |-> TRUE, exists |-> TRUE, filename |-> dropboxResult.filename,
          url |-> dropboxResult.shareUrl, source |-> "dropbox"]
    ELSE IF localFound # <<>>
    THEN [success |-> TRUE, exists |-> TRUE, filename |-> localFound,
          url |-> <<"/documents/", localFound>>, source |-> "local"]
    ELSE [success |-> TRUE, exists |-> FALSE]

\* GET /api/check-document/:id_osakidetza
CheckDocument ==
    \E b \in Browsers, id \in DocIds :
    \E remote \in RemoteCalls(b) :
    \E found \in OrNone(IF dropboxConfigured
                        THEN dropboxFind(dropboxCI, dropboxLegacy, id, remote)
                        ELSE {}),
       localFound \in OrNone(entriesNamed(uploads, id)) :
        LET session == reqSession(b) IN
        /\ adminLast' = IF requireAuth(session)
                        THEN AfterPrevious(
                                 AdminReply("check-document", b, [id |-> id], 200,
                                            checkDocument(found, localFound),
                                            Authed(b)))
                        ELSE unauthorized("check-document", b, [id |-> id])
        /\ UNCHANGED <<store, cookie, loginHits, adminConfig, adminFiles, loggedOut>>
        /\ UNCHANGED <<consentVars, restVars>>

AdminNext ==
    \/ Login
    \/ Logout
    \/ SessionExpire
    \/ GetUser
    \/ GetIndividuals
    \/ GetIndividual
    \/ UploadDocument
    \/ DeleteDocument
    \/ CheckDocument

\* The requests that bear on the lists of individuals.
IndividualsNext ==
    \/ Login
    \/ Logout
    \/ SessionExpire
    \/ GetIndividuals
    \/ GetIndividual

-----------------------------------------------------------------------------
(* Part III: the token cache (specification section 4.1; its code is not   *)
(* among the sources)                                                      *)

\* BUFFER = 5 minutes
BUFFER == 5

\* The lifetime assumed when the refresh response omits it: 4 hours.
DEFAULT_LIFETIME == 240

\* expires_in of a refresh response that omits it.
NoLifetime == 0

EmptyCache == [token |-> 0, expires_at |-> -1]

\* The answers of the authorization endpoint to a refresh exchange: a bearer
\* value with a lifetime in minutes (shorter than the buffer, longer than it,
\* or left out) or a failure.
RefreshResponses ==
    {[ok |-> TRUE, expires_in |-> 3],
     [ok |-> TRUE, expires_in |-> 8],
     [ok |-> TRUE, expires_in |-> NoLifetime],
     [ok |-> FALSE, expires_in |-> NoLifetime]}

\* Variant of needsRefresh: the buffer is left out of the comparison.
needsRefresh_NoBuffer(cache, t) ==
    cache.token = 0 \/ t > cache.expires_at

\* token is absent, OR now() > expires_at - BUFFER
needsRefresh(cache, t) ==
    cache.token = 0 \/ t > cache.expires_at - BUFFER

\* Variant of storeRefreshed: a failed exchange empties the cache.
storeRefreshed_ClearOnFailure(cache, resp, t) ==
    IF resp.ok
    THEN [token |-> t + 1,
          expires_at |-> t + (IF resp.expires_in = NoLifetime
                              THEN DEFAULT_LIFETIME ELSE resp.expires_in)]
    ELSE EmptyCache

\* The cache after a refresh exchange answered at time t: on success the
\* returned bearer value (named by the time it was issued) with
\* expires_at = now() + returned_lifetime; on failure the previous value.
storeRefreshed(cache, resp, t) ==
    IF resp.ok
    THEN [token |-> t + 1,
          expires_at |-> t + (IF resp.expires_in = NoLifetime
                              THEN DEFAULT_LIFETIME ELSE resp.expires_in)]
    ELSE cache

\* The outcome of a get_valid_token call: the token returned (0 with an
\* error), whether it came from a refresh of this call, whether the call was
\* made by the forced refresh, the time it returned and the expiry the cache
\* held then.
TokenResult(token, error, refreshed, forced, t, cache) ==
    [token |-> token, error |-> error, refreshed |-> refreshed,
     forced |-> forced, at |-> t, expires_at |-> cache.expires_at]

NoTokenResult == TokenResult(0, "none", FALSE, FALSE, -1, EmptyCache)

\* The calls waiting for their refresh exchange, counted by who made them.
Waiting == refreshing["get"] + refreshing["force"]

tokenStart(secrets) ==
    /\ tokenSecrets \in secrets
    /\ tokenCache = EmptyCache
    /\ clock = 0
    /\ refreshing = [who \in {"get", "force"} |-> 0]
    /\ tokenLast = NoTokenResult

\* get_valid_token(), up to the refresh exchange: without the secrets it
\* fails with ConfigurationError; a cached token outside the buffer is
\* returned; otherwise the refresh exchange is started.
GetValidToken ==
    /\ IF ~tokenSecrets
       THEN /\ tokenLast' = TokenResult(0, "ConfigurationError", FALSE, FALSE,
                                        clock, tokenCache)
            /\ UNCHANGED refreshing
       ELSE IF needsRefresh(tokenCache, clock)
       THEN /\ Waiting < MaxCallers
            /\ refreshing' = [refreshing EXCEPT !["get"] = @ + 1]
            /\ UNCHANGED tokenLast
       ELSE /\ tokenLast' = TokenResult(tokenCache.token, "none", FALSE, FALSE,
                                        clock, tokenCache)
            /\ UNCHANGED refreshing
    /\ UNCHANGED <<tokenSecrets, tokenCache, clock>>
    /\ UNCHANGED outsideToken

\* The refresh exchange of a waiting call is answered.
RefreshDone ==
    \E who \in {"get", "force"} :
    \E resp \in RefreshResponses :
        /\ refreshing[who] > 0
        /\ refreshing' = [refreshing EXCEPT ![who] = @ - 1]
        /\ tokenCache' = storeRefreshed(tokenCache, resp, clock)
        /\ tokenLast' = IF resp.ok
                        THEN TokenResult(tokenCache'.token, "none", TRUE,
                                         who = "force", clock, tokenCache')
                        ELSE TokenResult(0, "TokenRefreshError", FALSE,
                                         who = "force", clock, tokenCache')
        /\ UNCHANGED <<tokenSecrets, clock>>
        /\ UNCHANGED outsideToken

\* The forced refresh: the cached token is cleared, then a token is asked
\* for.
ForceRefresh ==
    /\ tokenSecrets
    /\ Waiting < MaxCallers
    /\ tokenCache' = EmptyCache
    /\ refreshing' = [refreshing EXCEPT !["force"] = @ + 1]
    /\ UNCHANGED <<tokenSecrets, clock, tokenLast>>
    /\ UNCHANGED outsideToken

\* A minute passes.
ClockTick ==
    /\ clock < MaxClock
    /\ clock' = clock + 1
    /\ UNCHANGED <<tokenSecrets, tokenCache, refreshing, tokenLast>>
    /\ UNCHANGED outsideToken

TokenNext ==
    \/ GetValidToken
    \/ RefreshDone
    \/ ForceRefresh
    \/ ClockTick

-----------------------------------------------------------------------------
(* Part IV: the functions of the backup service, the document service and  *)
(* the CSV synchronisation, called directly                                *)

\* The error of the backup service when dbx is null.
NoAccessToken == "Dropbox no configurado. Falta DROPBOX_ACCESS_TOKEN"

\* The error of the document service and of csvSync when initDropbox()
\* returns false or a secret is missing.
NotConfigured == "Dropbox not configured"

\* What a call of a service function came to: a value returned or an Error
\* thrown.
Returned(value) == [thrown |-> FALSE, value |-> value]
Thrown(message) == [thrown |-> TRUE, value |-> [message |-> message]]

\* exportCSVToDropbox: every statement is inside the try, and the catch
\* returns the failure object.
exportCSVToDropbox(client, ok) ==
    IF ~client THEN Returned([success |-> FALSE, error |-> NoAccessToken])
    ELSE IF ~ok THEN Returned([success |-> FALSE, error |-> "upload failed"])
    ELSE Returned([success |-> TRUE, dropboxPath |-> "/ActPrion/backups/csv"])

\* backupDatabaseToDropbox
backupDatabaseToDropbox(client, ok) ==
    IF ~client THEN Returned([success |-> FALSE, error |-> NoAccessToken])
    ELSE IF ~ok THEN Returned([success |-> FALSE, error |-> "upload failed"])
    ELSE Returned([success |-> TRUE, dropboxPath |-> "/ActPrion/backups/database"])

\* listDropboxBackups
listDropboxBackups(client, ok) ==
    IF ~client THEN Returned([success |-> FALSE, error |-> NoAccessToken])
    ELSE IF ~ok THEN Returned([success |-> FALSE, error |-> "listing failed"])
    ELSE Returned([success |-> TRUE, folder |-> "/ActPrion/backups/database"])

\* validateDropboxToken, of the backup service (client is dbx, message
\* NoAccessToken) and of the document service (client is initDropbox(),
\* message NotConfigured).
validateDropboxToken(client, ok, message) ==
    IF ~client
    THEN Returned([valid |-> FALSE, error |-> message, needsAction |-> TRUE])
    ELSE IF ~ok
    THEN Returned([valid |-> FALSE, error |-> "Token expired, revoked, or invalid",
                   needsAction |-> TRUE])
    ELSE Returned([valid |-> TRUE, account |-> "account"])

\* Variant of uploadCSVToDropbox: without the secrets it returns false, as
\* syncCSVFromDropbox does.
uploadCSVToDropbox_ReturnsFalse(configured, fileExists, ok) ==
    IF ~configured THEN Returned([success |-> FALSE, error |-> NotConfigured])
    ELSE IF ~fileExists THEN Thrown("File not found")
    ELSE IF ~ok THEN Thrown("upload failed")
    ELSE Returned([uploaded |-> TRUE])

\* uploadCSVToDropbox(fileName): the check of the secrets is outside the
\* try, and the catch throws the error again.
uploadCSVToDropbox(configured, fileExists, ok) ==
    IF ~configured THEN Thrown(NotConfigured)
    ELSE IF ~fileExists THEN Thrown("File not found")
    ELSE IF ~ok THEN Thrown("upload failed")
    ELSE Returned([uploaded |-> TRUE])

\* The folders of the document store, for the record of a call.
Folders(ci, legacy) == [ci |-> ci, legacy |-> legacy]
NoFolders == Folders({}, {})

\* The record of a call: the function, the id given, how the Dropbox API
\* answered, whether the call threw, the value returned or the error, and
\* the folders of the document store before and after. Functions that do
\* not touch the document store have NoFolders.
ServiceResult(op, id, remote, outcome, before, after) ==
    [op |-> op, id |-> id, remote |-> remote, thrown |-> outcome.thrown,
     value |-> outcome.value, before |-> before, after |-> after]

NoCall == ServiceResult("none", Missing, AllOk, Returned([none |-> TRUE]),
                        NoFolders, NoFolders)

\* How the Dropbox API answers a client that exists; without a client it is
\* not called.
ApiAnswers(client) == IF client THEN RemoteOutcomes ELSE {AllOk}

serviceStart(tokens) ==
    /\ dbx \in tokens
    /\ svcLast = NoCall

\* A call of one of the functions of the backup service that talk to Dropbox
\* only.
CallBackupFunction ==
    \E op \in {"exportCSVToDropbox", "backupDatabaseToDropbox",
               "listDropboxBackups", "validateDropboxToken"} :
    \E remote \in ApiAnswers(dbx) :
        /\ svcLast' = ServiceResult(op, Missing, remote,
              CASE op = "exportCSVToDropbox" -> exportCSVToDropbox(dbx, remote.op)
                [] op = "backupDatabaseToDropbox" ->
                       backupDatabaseToDropbox(dbx, remote.op)
                [] op = "listDropboxBackups" -> listDropboxBackups(dbx, remote.listCI)
                [] op = "validateDropboxToken" ->
                       validateDropboxToken(dbx, remote.op, NoAccessToken),
              NoFolders, NoFolders)
        /\ UNCHANGED <<dbx, dropboxCI, dropboxLegacy>>
        /\ UNCHANGED outsideService

\* A call of validateDropboxToken of the document service.
CallValidateDocuments ==
    \E remote \in ApiAnswers(dropboxConfigured) :
        /\ svcLast' = ServiceResult("validateDropboxToken:documents", Missing,
              remote, validateDropboxToken(dropboxConfigured, remote.op,
                                           NotConfigured),
              NoFolders, NoFolders)
        /\ UNCHANGED <<dbx, dropboxCI, dropboxLegacy>>
        /\ UNCHANGED outsideService

\* A call of uploadCSVToDropbox(fileName).
CallUploadCSV ==
    \E remote \in ApiAnswers(dropboxConfigured), fileExists \in BOOLEAN :
        /\ svcLast' = ServiceResult("uploadCSVToDropbox", Missing, remote,
              uploadCSVToDropbox(dropboxConfigured, fileExists, remote.op),
              NoFolders, NoFolders)
        /\ UNCHANGED <<dbx, dropboxCI, dropboxLegacy>>
        /\ UNCHANGED outsideService

\* A call of uploadToDropbox(localFilePath, idOsakidetza).
CallUploadToDropbox ==
    \E remote \in ApiAnswers(dropboxConfigured) :
        LET id == "TXPR001"
            up == uploadToDropbox(dropboxCI, dropboxLegacy, <<id, ".pdf">>, id,
                                  remote)
        IN
        /\ svcLast' = ServiceResult("uploadToDropbox", id, remote,
              IF up.thrown
              THEN Thrown(IF dropboxConfigured THEN "upload failed"
                          ELSE NotConfigured)
              ELSE Returned([success |-> TRUE, shareUrl |-> up.shareUrl]),
              Folders(dropboxCI, dropboxLegacy), Folders(up.ci, up.legacy))
        /\ dropboxCI' = up.ci
        /\ dropboxLegacy' = up.legacy
        /\ UNCHANGED dbx
        /\ UNCHANGED outsideService

\* A call of deleteFromDropbox(idOsakidetza).
CallDeleteFromDropbox ==
    \E id \in DocIds :
    \E remote \in ApiAnswers(dropboxConfigured) :
    \E found \in OrNone(IF dropboxConfigured
                        THEN dropboxFind(dropboxCI, dropboxLegacy, id, remote)
                        ELSE {}) :
        LET del == deleteFromDropbox(dropboxCI, dropboxLegacy, found, remote) IN
        /\ svcLast' = ServiceResult("deleteFromDropbox", id, remote,
              IF del.thrown
              THEN Thrown(IF ~dropboxConfigured THEN NotConfigured
                          ELSE IF found = <<>> THEN "File not found in Dropbox"
                          ELSE "delete failed")
              ELSE Returned([success |-> TRUE, path |-> found]),
              Folders(dropboxCI, dropboxLegacy), Folders(del.ci, del.legacy))
        /\ dropboxCI' = del.ci
        /\ dropboxLegacy' = del.legacy
        /\ UNCHANGED dbx
        /\ UNCHANGED outsideService

\* A call of checkDocumentInDropbox(idOsakidetza).
CallCheckDocumentInDropbox ==
    \E id \in DocIds :
    \E remote \in ApiAnswers(dropboxConfigured) :
    \E found \in OrNone(IF dropboxConfigured
                        THEN dropboxFind(dropboxCI, dropboxLegacy, id, remote)
                        ELSE {}) :
        /\ svcLast' = ServiceResult("checkDocumentInDropbox", id, remote,
              Returned(checkDocumentInDropbox(found)),
              Folders(dropboxCI, dropboxLegacy),
              Folders(dropboxCI, dropboxLegacy))
        /\ UNCHANGED <<dbx, dropboxCI, dropboxLegacy>>
        /\ UNCHANGED outsideService

RemoteNext ==
    \/ CallBackupFunction
    \/ CallValidateDocuments
    \/ CallUploadCSV
    \/ CallUploadToDropbox
    \/ CallDeleteFromDropbox
    \/ CallCheckDocumentInDropbox

-----------------------------------------------------------------------------
(* Part V: the local backups and the full backup of the backup service     *)

\* A file of BACKUP_DIR is [name, mtime]; a name is <<prefix, date, ending>>
\* and mtime is in days, as is the clock.
startsWith(name, prefix) == name[1] = prefix
endsWith(name, ending) == name[3] = ending

\* A file found at start holds the database as it is then.
BackupFile(name, mtime) == [name |-> name, mtime |-> mtime, content |-> 0]

\* fs.copyFileSync(DB_PATH, backupPath): the file as the copy leaves it.
copyOf(name, mtime) == [name |-> name, mtime |-> mtime, content |-> database]

\* BACKUP_DIR as the service can find it when it starts: empty; snapshots of
\* 10 and of 3 days ago; a snapshot of 7 days ago beside two old files that
\* are no snapshots.
BackupDirs ==
    {{},
     {BackupFile(<<"data_", -10, ".db">>, -10), BackupFile(<<"data_", -3, ".db">>, -3)},
     {BackupFile(<<"data_", -7, ".db">>, -7), BackupFile(<<"notes", -10, ".db">>, -10),
      BackupFile(<<"data_", -10, ".txt">>, -10)}}

\* The retention a caller passes to cleanOldBackups; 7 is the default and
\* what fullBackup passes.
RetentionDays == {7, 2}

\* Variant of createLocalBackup: an error of the file system is thrown to
\* the caller.
createLocalBackup_Throws(dir, day, fsOk) ==
    IF ~fsOk
    THEN [out |-> Thrown("copy failed"), dir |-> dir]
    ELSE LET backupFileName == <<"data_", day, ".db">> IN
         [out |-> Returned([success |-> TRUE, fileName |-> backupFileName]),
          dir |-> {f \in dir : f.name # backupFileName}
                      \cup {copyOf(backupFileName, day)}]

\* Variant of createLocalBackup: a file of the date that is there is left
\* as it is.
createLocalBackup_Once(dir, day, fsOk) ==
    IF ~fsOk
    THEN [out |-> Returned([success |-> FALSE, error |-> "copy failed"]),
          dir |-> dir]
    ELSE LET backupFileName == <<"data_", day, ".db">> IN
         [out |-> Returned([success |-> TRUE, fileName |-> backupFileName]),
          dir |-> IF \E f \in dir : f.name = backupFileName THEN dir
                  ELSE dir \cup {copyOf(backupFileName, day)}]

\* createLocalBackup: DB_PATH is copied to data_<date>.db, over a file of
\* that name if there is one; an error is caught and returned.
createLocalBackup(dir, day, fsOk) ==
    IF ~fsOk
    THEN [out |-> Returned([success |-> FALSE, error |-> "copy failed"]),
          dir |-> dir]
    ELSE LET backupFileName == <<"data_", day, ".db">> IN
         [out |-> Returned([success |-> TRUE, fileName |-> backupFileName]),
          dir |-> {f \in dir : f.name # backupFileName}
                      \cup {copyOf(backupFileName, day)}]

\* The files cleanOldBackups looks at and the ones it finds too old.
snapshotFiles(dir) ==
    {f \in dir : startsWith(f.name, "data_") /\ endsWith(f.name, ".db")}
tooOld(dir, day, retentionDays) ==
    {f \in snapshotFiles(dir) : day - f.mtime > retentionDays}

\* How the file system answers cleanOldBackups: all calls succeed, or one
\* fails after the files of `done` were unlinked.
FsAnswers(dir, day, retentionDays) ==
    {[ok |-> TRUE, done |-> tooOld(dir, day, retentionDays)]}
    \cup {[ok |-> FALSE, done |-> d] : d \in SUBSET tooOld(dir, day, retentionDays)}

\* Variant of cleanOldBackups: a file is deleted from the age of
\* retentionDays on.
cleanOldBackups_FromAge(dir, day, retentionDays, fs) ==
    LET old == {f \in snapshotFiles(dir) : day - f.mtime >= retentionDays} IN
    IF ~fs.ok
    THEN [out |-> Returned([success |-> FALSE, error |-> "file system"]),
          dir |-> dir \ fs.done]
    ELSE [out |-> Returned([success |-> TRUE, deleted |-> Cardinality(old),
                            kept |-> Cardinality(snapshotFiles(dir) \ old),
                            retentionDays |-> retentionDays]),
          dir |-> dir \ old]

\* cleanOldBackups(retentionDays)
cleanOldBackups(dir, day, retentionDays, fs) ==
    LET old == tooOld(dir, day, retentionDays) IN
    IF ~fs.ok
    THEN [out |-> Returned([success |-> FALSE, error |-> "file system"]),
          dir |-> dir \ fs.done]
    ELSE [out |-> Returned([success |-> TRUE, deleted |-> Cardinality(old),
                            kept |-> Cardinality(snapshotFiles(dir) \ old),
                            retentionDays |-> retentionDays]),
          dir |-> dir \ old]

\* BACKUP_DIR and the clock, for the record of a call.
DirAt(dir, day) == [dir |-> dir, day |-> day]

\* No fullBackup is running; log holds the steps of the last run: the
\* layers started and finished, in the order in which that happened.
IdleRun(log) == [pc |-> "idle", layers |-> <<>>, log |-> log]

backupStart(dirs) ==
    /\ backupDir \in dirs
    /\ today = 0
    /\ run = IdleRun(<<>>)
    /\ database = 0

\* A call of createLocalBackup().
CreateLocalBackup ==
    \E fsOk \in BOOLEAN :
        LET r == createLocalBackup(backupDir, today, fsOk) IN
        /\ backupDir' = r.dir
        /\ svcLast' = ServiceResult("createLocalBackup", Missing, AllOk, r.out,
                                    DirAt(backupDir, today), DirAt(r.dir, today))
        /\ UNCHANGED <<today, run, database>>
        /\ UNCHANGED outsideBackup

\* A call of cleanOldBackups(retentionDays).
CleanOldBackups ==
    \E retentionDays \in RetentionDays :
    \E fs \in FsAnswers(backupDir, today, retentionDays) :
        LET r == cleanOldBackups(backupDir, today, retentionDays, fs) IN
        /\ backupDir' = r.dir
        /\ svcLast' = ServiceResult("cleanOldBackups", retentionDays, AllOk, r.out,
                                    DirAt(backupDir, today), DirAt(r.dir, today))
        /\ UNCHANGED <<today, run, database>>
        /\ UNCHANGED outsideBackup

Started(layer) == <<layer, "started">>
Finished(layer) == <<layer, "finished">>

\* The end of fullBackup: cleanOldBackups(7) unless an earlier step threw,
\* then the results are returned. layers are the results of the layers run
\* so far, as <<name, result>> pairs.
fullBackupEnd(dir, day, layers, log, thrown, fs) ==
    IF thrown
    THEN [dir |-> dir, log |-> log,
          out |-> Thrown("rejected")]
    ELSE LET c == cleanOldBackups(dir, day, 7, fs) IN
         [dir |-> c.dir,
          log |-> log \o <<Started("cleanup"), Finished("cleanup")>>,
          out |-> Returned([layers |-> layers, cleanup |-> c.out.value])]

\* fullBackup(db), up to its first wait: createLocalBackup, then with a
\* client the start of exportCSVToDropbox, without one cleanOldBackups(7)
\* and the return.
FullBackup ==
    \E fsOk \in BOOLEAN :
    \E fs \in FsAnswers(createLocalBackup(backupDir, today, fsOk).dir, today, 7) :
        LET local == createLocalBackup(backupDir, today, fsOk)
            layers == <<<<"local", local.out.value>>>>
            log == <<Started("local"), Finished("local")>>
            end == fullBackupEnd(local.dir, today, layers, log, local.out.thrown, fs)
        IN
        /\ run.pc = "idle"
        /\ IF dbx /\ ~local.out.thrown
           THEN /\ backupDir' = local.dir
                /\ run' = [pc |-> "csvDropbox", layers |-> layers,
                           log |-> log \o <<Started("csvDropbox")>>]
                /\ UNCHANGED svcLast
           ELSE /\ backupDir' = end.dir
                /\ run' = IdleRun(end.log)
                /\ svcLast' = ServiceResult("fullBackup", Missing, AllOk, end.out,
                                            DirAt(backupDir, today),
                                            DirAt(end.dir, today))
        /\ UNCHANGED <<today, database>>
        /\ UNCHANGED outsideBackup

\* fullBackup when the upload of exportCSVToDropbox is answered: the result
\* of the layer is kept and backupDatabaseToDropbox is started.
FullBackupCsvDone ==
    \E ok \in BOOLEAN :
        LET r == exportCSVToDropbox(dbx, ok) IN
        /\ run.pc = "csvDropbox"
        /\ IF r.thrown
           THEN /\ run' = IdleRun(run.log)
                /\ svcLast' = ServiceResult("fullBackup", Missing, AllOk,
                                            Thrown("rejected"),
                                            DirAt(backupDir, today),
                                            DirAt(backupDir, today))
           ELSE /\ run' = [pc |-> "databaseDropbox",
                           layers |-> Append(run.layers, <<"csvDropbox", r.value>>),
                           log |-> run.log \o <<Finished("csvDropbox"),
                                                Started("databaseDropbox")>>]
                /\ UNCHANGED svcLast
        /\ UNCHANGED <<backupDir, today, database>>
        /\ UNCHANGED outsideBackup

\* fullBackup when the upload of backupDatabaseToDropbox is answered: the
\* result of the layer is kept, cleanOldBackups(7) is run and the results
\* are returned.
FullBackupDbDone ==
    \E ok \in BOOLEAN :
    \E fs \in FsAnswers(backupDir, today, 7) :
        LET r == backupDatabaseToDropbox(dbx, ok)
            end == fullBackupEnd(backupDir, today,
                                 Append(run.layers, <<"databaseDropbox", r.value>>),
                                 run.log \o <<Finished("databaseDropbox")>>,
                                 r.thrown, fs)
        IN
        /\ run.pc = "databaseDropbox"
        /\ backupDir' = end.dir
        /\ run' = IdleRun(end.log)
        /\ svcLast' = ServiceResult("fullBackup", Missing, AllOk, end.out,
                                    DirAt(backupDir, today), DirAt(end.dir, today))
        /\ UNCHANGED <<today, database>>
        /\ UNCHANGED outsideBackup

\* A day passes.
DayPasses ==
    /\ today < MaxDay
    /\ today' = today + 1
    /\ UNCHANGED <<backupDir, run, svcLast, database>>
    /\ UNCHANGED outsideBackup

\* The consent service writes a record to the database.
WriteDatabase ==
    /\ database < MaxWrites
    /\ database' = database + 1
    /\ UNCHANGED <<backupDir, today, run, svcLast>>
    /\ UNCHANGED outsideBackup

BackupNext ==
    \/ WriteDatabase
    \/ CreateLocalBackup
    \/ CleanOldBackups
    \/ FullBackup
    \/ FullBackupCsvDone
    \/ FullBackupDbDone
    \/ DayPasses

-----------------------------------------------------------------------------
(* Part VI: searchIndividuals and sortIndividuals                          *)
(*                                                                         *)
(* Field values and queries are sequences of one-character strings.        *)

UpperCase == <<"A","B","C","D","E","F","G","H","I","J","K","L","M","N","O","P",
               "Q","R","S","T","U","V","W","X","Y","Z">>
LowerCase == <<"a","b","c","d","e","f","g","h","i","j","k","l","m","n","o","p",
               "q","r","s","t","u","v","w","x","y","z">>

\* The characters of the samples in the order of their code units.
CodeOrder == <<" ", "-", ".", "0","1","2","3","4","5","6","7","8","9">>
             \o UpperCase \o LowerCase

codeOf(c) == CHOOSE i \in 1..Len(CodeOrder) : CodeOrder[i] = c

\* The records of an individuals file: name and age as the CSV has them.
RecAna == [name |-> <<"A","n","a">>, age |-> <<"1","0">>]
RecAne == [name |-> <<"a","N","e">>, age |-> <<"9">>]
RecJon == [name |-> <<"J","o","n">>, age |-> <<"2",".","5">>]
RecBo == [name |-> <<"b"," ","o">>, age |-> <<"-","3">>]
RecIon == [name |-> <<"I","O","N">>, age |-> <<" ","9","x">>]
RecNa == [name |-> <<"N","a">>, age |-> <<"x","1">>]
SampleRecords == {RecAna, RecAne, RecJon, RecBo, RecIon, RecNa}

\* The arrays of at most n sample records.
RECURSIVE ArraysUpTo(_)
ArraysUpTo(n) ==
    IF n = 0 THEN {<<>>}
    ELSE ArraysUpTo(n - 1)
         \cup {Append(a, r) : a \in {b \in ArraysUpTo(n - 1) : Len(b) = n - 1},
                              r \in SampleRecords}

\* The search parameter: empty, blank, in another case than the values, with
\* blanks around it, with a blank inside, a digit, and one that is nowhere.
Queries ==
    {<<>>, <<" ">>, <<"a">>, <<" ","A","N"," ">>, <<"o","n">>, <<"b"," ">>,
     <<"9">>, <<"z">>}

SortFields == {"name", "age", "zip"}
SortDirections == {"asc", "desc"}

\* String.prototype.toLowerCase
toLowerCase(str) ==
    [i \in 1..Len(str) |->
        IF \E k \in 1..Len(UpperCase) : UpperCase[k] = str[i]
        THEN LowerCase[CHOOSE k \in 1..Len(UpperCase) : UpperCase[k] = str[i]]
        ELSE str[i]]

\* String.prototype.trim
RECURSIVE trim(_)
trim(str) ==
    IF str = <<>> THEN <<>>
    ELSE IF Head(str) = " " THEN trim(Tail(str))
    ELSE IF str[Len(str)] = " " THEN trim(SubSeq(str, 1, Len(str) - 1))
    ELSE str

\* Variant of includes: the term has to be at the start of the string.
includes_AtStart(str, term) ==
    /\ Len(term) <= Len(str)
    /\ SubSeq(str, 1, Len(term)) = term

\* String.prototype.includes
RECURSIVE includes(_, _)
includes(str, term) ==
    /\ Len(term) <= Len(str)
    /\ \/ SubSeq(str, 1, Len(term)) = term
       \/ includes(Tail(str), term)

\* The test of the filter: some value of the record has the term in it.
someValueIncludes(individual, searchTerm) ==
    \E field \in DOMAIN individual :
        includes(toLowerCase(individual[field]), searchTerm)

\* individuals.filter(...)
RECURSIVE filter(_, _)
filter(array, searchTerm) ==
    IF array = <<>> THEN <<>>
    ELSE IF someValueIncludes(Head(array), searchTerm)
    THEN <<Head(array)>> \o filter(Tail(array), searchTerm)
    ELSE filter(Tail(array), searchTerm)

\* searchIndividuals(individuals, query)
searchIndividuals(records, query) ==
    IF query = <<>> \/ trim(query) = <<>>
    THEN records
    ELSE filter(records, trim(toLowerCase(query)))

\* A number as parseFloat gives it, in tenths, or NaN.
Number(tenths) == [nan |-> FALSE, tenths |-> tenths]
NotANumber == [nan |-> TRUE, tenths |-> 0]

\* The digits at the start of a string.
RECURSIVE leadingDigits(_)
leadingDigits(str) ==
    IF str # <<>> /\ Head(str) \in Digits
    THEN <<Head(str)>> \o leadingDigits(Tail(str))
    ELSE <<>>

\* The value of a sequence of digits.
RECURSIVE digitsValue(_)
digitsValue(digits) ==
    IF digits = <<>> THEN 0
    ELSE 10 * digitsValue(SubSeq(digits, 1, Len(digits) - 1))
         + (codeOf(digits[Len(digits)]) - codeOf("0"))

\* parseFloat on strings without exponent, with one digit after the point
\* at most: blanks at the start are skipped, then a sign, digits, a point
\* and digits are read as far as they go.
RECURSIVE parseFloat(_)
parseFloat(str) ==
    IF str # <<>> /\ Head(str) = " " THEN parseFloat(Tail(str))
    ELSE LET negative == str # <<>> /\ Head(str) = "-"
             unsigned == IF negative THEN Tail(str) ELSE str
             whole == leadingDigits(unsigned)
             rest == SubSeq(unsigned, Len(whole) + 1, Len(unsigned))
             fraction == IF rest # <<>> /\ Head(rest) = "."
                         THEN leadingDigits(Tail(rest)) ELSE <<>>
             tenths == 10 * digitsValue(whole)
                       + (IF fraction = <<>> THEN 0
                          ELSE digitsValue(<<fraction[1]>>))
         IN  IF whole = <<>> /\ fraction = <<>> THEN NotANumber
             ELSE Number(IF negative THEN 0 - tenths ELSE tenths)

\* aVal < bVal on strings: by code units.
RECURSIVE lessThan(_, _)
lessThan(a, b) ==
    IF b = <<>> THEN FALSE
    ELSE IF a = <<>> THEN TRUE
    ELSE IF Head(a) = Head(b) THEN lessThan(Tail(a), Tail(b))
    ELSE codeOf(Head(a)) < codeOf(Head(b))

\* a[field] || ''
fieldOr(record, field) ==
    IF field \in DOMAIN record THEN record[field] ELSE <<>>

\* Variant of compareFn: numbers are compared as the strings they are
\* written as.
compareFn_AsStrings(a, b, field, direction) ==
    LET aVal == toLowerCase(fieldOr(a, field))
        bVal == toLowerCase(fieldOr(b, field))
    IN  IF direction = "asc"
        THEN (IF lessThan(aVal, bVal) THEN -1
              ELSE IF lessThan(bVal, aVal) THEN 1 ELSE 0)
        ELSE (IF lessThan(bVal, aVal) THEN -1
              ELSE IF lessThan(aVal, bVal) THEN 1 ELSE 0)

\* The comparison function sortIndividuals gives to sort.
compareFn(a, b, field, direction) ==
    LET aNum == parseFloat(fieldOr(a, field))
        bNum == parseFloat(fieldOr(b, field))
        aVal == toLowerCase(fieldOr(a, field))
        bVal == toLowerCase(fieldOr(b, field))
    IN  IF ~aNum.nan /\ ~bNum.nan
        THEN (IF direction = "asc" THEN aNum.tenths - bNum.tenths
              ELSE bNum.tenths - aNum.tenths)
        ELSE IF direction = "asc"
        THEN (IF lessThan(aVal, bVal) THEN -1
              ELSE IF lessThan(bVal, aVal) THEN 1 ELSE 0)
        ELSE (IF lessThan(bVal, aVal) THEN -1
              ELSE IF lessThan(aVal, bVal) THEN 1 ELSE 0)

\* Array.prototype.sort on a short array: a stable insertion sort. x goes
\* behind the last element that the comparison does not put after it.
RECURSIVE insertSorted(_, _, _, _)
insertSorted(sorted, x, field, direction) ==
    IF sorted = <<>> THEN <<x>>
    ELSE IF compareFn(sorted[Len(sorted)], x, field, direction) > 0
    THEN Append(insertSorted(SubSeq(sorted, 1, Len(sorted) - 1), x, field,
                             direction),
                sorted[Len(sorted)])
    ELSE Append(sorted, x)

\* sortIndividuals(individuals, field, direction): a copy is sorted.
RECURSIVE sortIndividuals(_, _, _)
sortIndividuals(records, field, direction) ==
    IF records = <<>> THEN <<>>
    ELSE insertSorted(sortIndividuals(SubSeq(records, 1, Len(records) - 1),
                                      field, direction),
                      records[Len(records)], field, direction)

\* The record of a call: the function, its arguments, the array it was
\* given as it is after the call, and the array returned.
ListCall(fn, args, given, out) ==
    [fn |-> fn, args |-> args, given |-> given, out |-> out]
NoListCall == ListCall("none", <<>>, <<>>, <<>>)

listStart(arrays) ==
    /\ listGiven \in arrays
    /\ fnLast = NoListCall

\* A call of searchIndividuals on the array.
SearchIndividuals ==
    \E query \in Queries :
        /\ fnLast' = ListCall("searchIndividuals", <<query>>, listGiven,
                              searchIndividuals(listGiven, query))
        /\ UNCHANGED listGiven
        /\ UNCHANGED outsideList

\* A call of sortIndividuals on the array.
SortIndividuals ==
    \E field \in SortFields, direction \in SortDirections :
        /\ fnLast' = ListCall("sortIndividuals", <<field, direction>>,
                              listGiven,
                              sortIndividuals(listGiven, field, direction))
        /\ UNCHANGED listGiven
        /\ UNCHANGED outsideList

ListNext ==
    \/ SearchIndividuals
    \/ SortIndividuals

-----------------------------------------------------------------------------
(* Part VII: the admin front end (src/public/js/app.js): the CI cell of a  *)
(* row of the table, renderCICell and handleCIDelete                       *)

\* The rows of the table: one individual with a document id, a second one,
\* and one without id_osakidetza.
Rows ==
    << [id_osakidetza |-> "TXPR001", id_ci |-> "CI-001"],
       [id_osakidetza |-> "TXPR404", id_ci |-> "CI-404"],
       [id_osakidetza |-> "",        id_ci |-> ""] >>

RowIds == {Rows[i].id_osakidetza : i \in DOMAIN Rows} \ {""}

DocumentSets == SUBSET RowIds

\* A table cell: its child elements, its text when it has no element, and
\* its classes.
NewTd == [children |-> <<>>, text |-> "", classes |-> {"td-ci"}]

\* td.innerHTML = ''
cleared(td) == [td EXCEPT !.children = <<>>, !.text = ""]

\* td.textContent = text
withText(td, text) == [td EXCEPT !.children = <<>>, !.text = text]

\* td.appendChild(element)
appendChild(td, element) ==
    [td EXCEPT !.children = Append(@, element), !.text = ""]

NoHandler == <<"none", "">>

\* The elements renderCICell and handleCIDelete make. onclick names the
\* function the handler calls and the id it passes.
Anchor(href, text) ==
    [tag |-> "a", class |-> "ci-link", href |-> href, text |-> text,
     onclick |-> NoHandler]

DeleteButton(idOsakidetza) ==
    [tag |-> "button", class |-> "ci-delete-btn", href |-> "", text |-> "bin",
     onclick |-> <<"handleCIDelete", idOsakidetza>>]

UploadButton(idOsakidetza) ==
    [tag |-> "button", class |-> "ci-upload-btn", href |-> "",
     text |-> "documents.noFile",
     onclick |-> <<"handleCIUpload", idOsakidetza>>]

DeletingSpan ==
    [tag |-> "span", class |-> "ci-uploading", href |-> "",
     text |-> "Eliminando...", onclick |-> NoHandler]

\* What fetch and response.json() of GET /api/check-document/<id> give: the
\* request fails, the server refuses it, or it tells whether the document
\* is there.
CheckAnswers(docs, idOsakidetza) ==
    { [rejected |-> TRUE, success |-> FALSE, exists |-> FALSE, url |-> ""],
      [rejected |-> FALSE, success |-> FALSE, exists |-> FALSE, url |-> ""],
      [rejected |-> FALSE, success |-> TRUE,
       exists |-> idOsakidetza \in docs,
       url |-> IF idOsakidetza \in docs THEN "/documents/" \o idOsakidetza
               ELSE ""] }

NoAnswer == [rejected |-> FALSE, success |-> FALSE, exists |-> FALSE, url |-> "none"]

\* state.documentStatus[key] = value: a TypeError when state.documentStatus
\* is undefined.
setStatus(status, key, value) ==
    IF status = Undefined
    THEN [thrown |-> TRUE, status |-> status]
    ELSE [thrown |-> FALSE, status |-> (key :> value) @@ status]

\* renderCICell(td, individual), given the answer of the check request:
\* the cell and state.documentStatus afterwards.
renderCICell(td, individual, status, data) ==
    LET idOsakidetza == individual.id_osakidetza
        idCi == individual.id_ci
        caught == [td |-> [withText(td, "documents.noFile")
                              EXCEPT !.classes = @ \cup {"ci-no-file"}],
                   status |-> status]
    IN  IF idOsakidetza = ""
        THEN [td |-> withText(td, "-"), status |-> status]
        ELSE IF data.rejected
        THEN caught
        ELSE LET set == setStatus(status, idOsakidetza,
                                  data.success /\ data.exists)
             IN  IF set.thrown
                 THEN caught
                 ELSE IF data.success /\ data.exists
                 THEN [td |-> appendChild(
                                 appendChild(td, Anchor(data.url, idCi)),
                                 DeleteButton(idOsakidetza)),
                       status |-> set.status]
                 ELSE [td |-> appendChild(td, UploadButton(idOsakidetza)),
                       status |-> set.status]

\* What fetch of DELETE /api/delete-document/<id> gives: the request fails,
\* the server answers with an error status, or it deleted the document.
DeleteAnswers(docs, idOsakidetza) ==
    { [rejected |-> TRUE, ok |-> FALSE, success |-> FALSE],
      [rejected |-> FALSE, ok |-> FALSE, success |-> FALSE] }
    \cup (IF idOsakidetza \in docs
          THEN {[rejected |-> FALSE, ok |-> TRUE, success |-> TRUE]}
          ELSE {})

\* handleCIDelete from the answer of the DELETE request on: whether the
\* catch branch ran, and state.documentStatus before the cell is rendered.
afterDelete(status, idOsakidetza, answer) ==
    IF answer.rejected \/ ~answer.ok \/ ~answer.success
    THEN [caught |-> TRUE, status |-> status]
    ELSE LET set == setStatus(status, idOsakidetza, FALSE)
         IN  [caught |-> set.thrown, status |-> set.status]

FrontStep(op, row, caught, data) ==
    [op |-> op, row |-> row, caught |-> caught, data |-> data]

frontStart(docSets) ==
    /\ documentStatus = Undefined
    /\ tdCI = [i \in DOMAIN Rows |-> NewTd]
    /\ documents \in docSets
    /\ deleting = {}
    /\ failedDeletes = [i \in DOMAIN Rows |-> 0]
    /\ frontLast = FrontStep("none", 0, FALSE, NoAnswer)

\* A row of the table is drawn: a new CI cell, filled by renderCICell.
DisplayRow ==
    \E i \in DOMAIN Rows \ deleting :
      \E data \in CheckAnswers(documents, Rows[i].id_osakidetza) :
        LET r == renderCICell(NewTd, Rows[i], documentStatus, data)
        IN  /\ tdCI' = [tdCI EXCEPT ![i] = r.td]
            /\ documentStatus' = r.status
            /\ frontLast' = FrontStep("renderCICell", i, FALSE, data)
            /\ UNCHANGED <<documents, deleting, failedDeletes>>
            /\ UNCHANGED outsideFront

\* handleCIDelete(idOsakidetza, td, individual) up to its DELETE request.
HandleCIDelete ==
    \E i \in DOMAIN Rows \ deleting, confirmed \in BOOLEAN :
        /\ Rows[i].id_osakidetza # ""
        /\ failedDeletes[i] < MaxAttempts
        /\ IF confirmed
           THEN /\ tdCI' = [tdCI EXCEPT
                               ![i] = appendChild(cleared(@), DeletingSpan)]
                /\ deleting' = deleting \cup {i}
           ELSE UNCHANGED <<tdCI, deleting>>
        /\ frontLast' = FrontStep(IF confirmed THEN "deleteStarted"
                                  ELSE "deleteDeclined", i, FALSE, NoAnswer)
        /\ UNCHANGED <<documentStatus, documents, failedDeletes>>
        /\ UNCHANGED outsideFront

\* handleCIDelete from the answer of its DELETE request to its end: the
\* cell is cleared and rendered again on both paths.
HandleCIDeleteAnswered ==
    \E i \in deleting :
      \E answer \in DeleteAnswers(documents, Rows[i].id_osakidetza) :
        LET idOsakidetza == Rows[i].id_osakidetza
            left == IF answer.ok /\ answer.success
                    THEN documents \ {idOsakidetza} ELSE documents
            d == afterDelete(documentStatus, idOsakidetza, answer)
        IN  \E data \in CheckAnswers(left, idOsakidetza) :
              LET r == renderCICell(cleared(tdCI[i]), Rows[i], d.status, data)
              IN  /\ documents' = left
                  /\ deleting' = deleting \ {i}
                  /\ tdCI' = [tdCI EXCEPT ![i] = r.td]
                  /\ documentStatus' = r.status
                  /\ failedDeletes' =
                         [failedDeletes EXCEPT
                             ![i] = IF d.caught THEN @ + 1 ELSE @]
                  /\ frontLast' = FrontStep("deleteEnded", i, d.caught, data)
                  /\ UNCHANGED outsideFront

\* A document is put on the server from elsewhere.
DocumentArrives ==
    \E id \in RowIds \ documents :
        /\ documents' = documents \cup {id}
        /\ frontLast' = FrontStep("none", 0, FALSE, NoAnswer)
        /\ UNCHANGED <<documentStatus, tdCI, deleting, failedDeletes>>
        /\ UNCHANGED outsideFront

FrontNext ==
    \/ DisplayRow
    \/ HandleCIDelete
    \/ HandleCIDeleteAnswered
    \/ DocumentArrives

-----------------------------------------------------------------------------
(* Specifications                                                          *)

\* The services are separate processes: while one is looked at, the others
\* are left in one start state.
ConsentInit ==
    /\ consentStart(ConsentConfigs)
    /\ adminStart({FALSE}, {{}})
    /\ tokenStart({FALSE})
    /\ serviceStart({FALSE})
    /\ backupStart({{}})
    /\ listStart({<<>>})
    /\ frontStart({{}})

AdminInit ==
    /\ adminStart(BOOLEAN, LegacyFolders)
    /\ consentStart({[email |-> FALSE, token |-> Missing, origins |-> {}]})
    /\ tokenStart({FALSE})
    /\ serviceStart({FALSE})
    /\ backupStart({{}})
    /\ listStart({<<>>})
    /\ frontStart({{}})

TokenInit ==
    /\ tokenStart(BOOLEAN)
    /\ consentStart({[email |-> FALSE, token |-> Missing, origins |-> {}]})
    /\ adminStart({FALSE}, {{}})
    /\ serviceStart({FALSE})
    /\ backupStart({{}})
    /\ listStart({<<>>})
    /\ frontStart({{}})

RemoteInit ==
    /\ serviceStart(BOOLEAN)
    /\ adminStart(BOOLEAN, LegacyFolders)
    /\ consentStart({[email |-> FALSE, token |-> Missing, origins |-> {}]})
    /\ tokenStart({FALSE})
    /\ backupStart({{}})
    /\ listStart({<<>>})
    /\ frontStart({{}})

BackupInit ==
    /\ backupStart(BackupDirs)
    /\ serviceStart(BOOLEAN)
    /\ consentStart({[email |-> FALSE, token |-> Missing, origins |-> {}]})
    /\ adminStart({FALSE}, {{}})
    /\ tokenStart({FALSE})
    /\ listStart({<<>>})
    /\ frontStart({{}})

IndividualsInit ==
    /\ adminStartWith({CredentialsOfLists}, {{1, 2}, {1}, {2}}, {FALSE}, {{}})
    /\ consentStart({[email |-> FALSE, token |-> Missing, origins |-> {}]})
    /\ tokenStart({FALSE})
    /\ serviceStart({FALSE})
    /\ backupStart({{}})
    /\ listStart({<<>>})
    /\ frontStart({{}})

ListInit ==
    /\ listStart(ArraysUpTo(MaxRecords))
    /\ consentStart({[email |-> FALSE, token |-> Missing, origins |-> {}]})
    /\ adminStart({FALSE}, {{}})
    /\ tokenStart({FALSE})
    /\ serviceStart({FALSE})
    /\ backupStart({{}})
    /\ frontStart({{}})

FrontInit ==
    /\ frontStart(DocumentSets)
    /\ consentStart({[email |-> FALSE, token |-> Missing, origins |-> {}]})
    /\ adminStart({FALSE}, {{}})
    /\ tokenStart({FALSE})
    /\ serviceStart({FALSE})
    /\ backupStart({{}})
    /\ listStart({<<>>})

vars == <<consentVars, adminVars, restVars>>

ConsentNext ==
    \/ PostSubmit
    \/ GetSubmit
    \/ SubmitResume
    \/ Health
    \/ Tick
    \/ WindowReset

SpecConsent == ConsentInit /\ [][ConsentNext]_vars

SpecAdmin == AdminInit /\ [][AdminNext]_vars

SpecIndividuals == IndividualsInit /\ [][IndividualsNext]_vars

SpecToken == TokenInit /\ [][TokenNext]_vars

SpecRemote == RemoteInit /\ [][RemoteNext]_vars

SpecBackup == BackupInit /\ [][BackupNext]_vars

SpecList == ListInit /\ [][ListNext]_vars

SpecFront == FrontInit /\ [][FrontNext]_vars

-----------------------------------------------------------------------------
(* Properties of the consent service                                       *)

\* The payload has one of the three responses and an id of 3 to 128
\* characters of the allowed set.
WellFormed(q) ==
    /\ q.response \in {"acepto", "necesito_mas_info", "rechazo"}
    /\ Len(q.id) \in 3..128
    /\ \A i \in 1..Len(q.id) : q.id[i] \in IdChars

\* The payload is valid: well formed and, when a submission token is
\* configured, carrying it.
ValidSubmission(q) ==
    /\ WellFormed(q)
    /\ SUBMISSION_TOKEN = Missing \/ q.token = SUBMISSION_TOKEN

\* The reply tells the participant that the response was registered.
SubmitSuccess(r) ==
    \/ r.method = "POST" /\ r.status = 200 /\ r.ok = "true"
    \/ r.method = "GET" /\ r.status = 302

Handled(r) == r.route = "submit" /\ r.stage = "handler"

RowsOf(id) == {i \in 1..Len(responses) : responses[i].participant_id = id}

\* C1: in every reachable state the table responses holds at most one
\* record per participant identifier.
C1_OneRecordPerParticipant ==
    \A i, j \in 1..Len(responses) :
        responses[i].participant_id = responses[j].participant_id => i = j

\* Two participants have a record and a further submission for one of them
\* was turned down as a duplicate.
C1_Witness ==
    /\ Len(responses) = 2
    /\ Handled(last) /\ last.status = 409

C3_InvalidRejectedBeforeWrite ==
    (last.route = "submit" /\ ~WellFormed(last.q)) =>
        /\ ~last.wrote
        /\ last.mail = "none"
        /\ Handled(last) => last.status = 400 /\ last.ok = "false"

\* A malformed id was answered 400 while the table holds a record.
C3_Witness ==
    /\ Handled(last) /\ last.status = 400
    /\ last.q.response \in VALID_RESPONSES /\ ~WellFormed(last.q)
    /\ Len(responses) > 0

\* C4 as stated: every accepted submission, POST or GET, is answered with
\* status 200 and a body {ok:true, ts} with the stored timestamp.
C4_Original ==
    (Handled(last) /\ last.wrote) =>
        /\ last.status = 200 /\ last.ok = "true"
        /\ \E i \in RowsOf(last.q.id) : responses[i].ts_utc = last.ts

\* C4 amended: an accepted POST is answered with status 200 and a body
\* {ok:true, ts} where ts is the timestamp stored in the consent record; an
\* accepted GET is answered with a redirect (302) to
\* /response.html?status=ok&response=<response> and carries no ts.
C4_AcceptedReply ==
    (Handled(last) /\ last.wrote) =>
        IF last.method = "POST"
        THEN /\ last.status = 200 /\ last.ok = "true"
             /\ \E i \in RowsOf(last.q.id) : responses[i].ts_utc = last.ts
        ELSE /\ last.status = 302 /\ last.ok = "none" /\ last.ts = -1
             /\ last.location = <<"/response.html?status=ok&response=",
                                  last.q.response>>

\* An accepted POST is answered after the clock has moved on.
C4_Witness ==
    /\ Handled(last) /\ last.wrote /\ last.method = "POST"
    /\ last.ts < now

\* C5: when the record has been written and sending the notification
\* fails, the participant still receives the success reply and the record
\* stays in the table.
C5_MailFailureSwallowed ==
    (Handled(last) /\ last.mail = "failed") =>
        /\ SubmitSuccess(last)
        /\ \E i \in RowsOf(last.q.id) : responses[i].response = last.q.response

C5_Witness == Handled(last) /\ last.mail = "failed"

\* C6 as stated: every GET /api/health is answered with status 200 and a
\* body whose status is "ok", whatever requests preceded it.
C6_Original ==
    last.route = "health" => last.status = 200 /\ last.health = "ok"

\* C6 amended: a GET /api/health is answered with status 200 and a body
\* whose status is "ok" when its Origin passes the CORS check and fewer
\* than 10 requests to /api/ of its IP were counted in the rate-limit
\* window; an Origin that is not allowed is answered 403, and a request
\* beyond the 10th of the window 429.
C6_HealthUnlessRejected ==
    [][(last'.route = "health" /\ last' # last) =>
          IF last'.stage = "cors" THEN last'.status = 403 /\ hits' = hits
          ELSE IF hits[last'.ip] >= RateLimitMax THEN last'.status = 429
          ELSE last'.status = 200 /\ last'.health = "ok"]_vars

\* A health check answered ok after other requests of the same IP.
C6_Witness ==
    /\ last.route = "health" /\ last.status = 200
    /\ hits[last.ip] > 2 /\ Len(responses) > 0

\* C20: with a submission token configured, a submission, POST or GET,
\* whose token is absent or differs from it writes no record and sends no
\* notification, and the submit handler answers it with 400 and ok:false,
\* also when its response and id are valid; with no submission token
\* configured, the handler never answers 400 to a submission whose response
\* and id are valid, whatever its token field holds.
C20_TokenGuardsSubmission ==
    /\ (last.route = "submit" /\ SUBMISSION_TOKEN # Missing
            /\ last.q.token # SUBMISSION_TOKEN) =>
           /\ ~last.wrote
           /\ last.mail = "none"
           /\ Handled(last) => last.status = 400 /\ last.ok = "false"
    /\ (Handled(last) /\ SUBMISSION_TOKEN = Missing /\ WellFormed(last.q)) =>
           last.status # 400

\* With a token configured, a submission with a valid response and id and
\* another token was answered 400 while the id has no record.
C20_Witness ==
    /\ SUBMISSION_TOKEN # Missing
    /\ Handled(last) /\ last.status = 400
    /\ WellFormed(last.q)
    /\ last.q.token \notin {Missing, SUBMISSION_TOKEN}
    /\ RowsOf(last.q.id) = {}

\* The handlers suspended at sendNotification for the id.
Suspended(id) == {p \in pending : p.q.id = id}

\* C21: however submit requests for one id interleave, POST or GET, the
\* request that wrote the record is the only one answered with success:
\* an id without a record has no success reply and no suspended handler,
\* an id with a record has one of the two; every valid submission handled
\* when a record of its id has been written is answered 409, and no
\* submission is answered 500 on account of a record that exists.
C21_OneSuccessPerId ==
    /\ \A id \in SubmitIds :
           succeeded[id] + Cardinality(Suspended(id)) =
               IF RowsOf(id) = {} THEN 0 ELSE 1
    /\ (Handled(last) /\ ValidSubmission(last.q) /\ last.dup) =>
           last.status = 409
    /\ (Handled(last) /\ last.status = 500) => ~last.dup

\* A GET for an id was answered 409 while the POST that wrote the id's
\* record was still waiting for its notification.
C21_Witness ==
    /\ Handled(last) /\ last.method = "GET" /\ last.status = 409
    /\ \E p \in Suspended(last.q.id) : p.method = "POST"
    /\ succeeded[last.q.id] = 0

\* The sendMail calls made for the id.
MailsOf(id) == {i \in 1..Len(mailLog) : mailLog[i].participantId = id}

\* A step that attempts a notification attempts one, and inserts the record
\* of its id.
MailFollowsInsert ==
    (mailLog' # mailLog) =>
        /\ Len(mailLog') = Len(mailLog) + 1
        /\ Len(responses') = Len(responses) + 1
        /\ responses'[Len(responses')].participant_id =
               mailLog'[Len(mailLog')].participantId

\* A step in which the handler answers 400, 409 or 500 attempts none.
NoMailOnError ==
    (last' # last /\ Handled(last') /\ last'.status \in {400, 409, 500}) =>
        /\ mailLog' = mailLog
        /\ last'.mail = "none"

\* Every notification attempted is the only one of its id, and the id's
\* record is in the table with the response and timestamp the mail carries.
MailsMatchRecords ==
    \A i \in 1..Len(mailLog) :
        /\ MailsOf(mailLog[i].participantId) = {i}
        /\ \E j \in RowsOf(mailLog[i].participantId) :
               /\ responses[j].response = mailLog[i].response
               /\ responses[j].ts_utc = mailLog[i].ts

\* C22: after every step (no mail has been attempted at start-up), every
\* notification attempted is for an id whose record is in the table and at
\* most one has been attempted per id; a step attempts a notification only
\* when it inserts the record of that id; and a step in which the handler
\* answers 400, 409 or 500 attempts none.
C22_NotifyOncePerRecord ==
    [][MailsMatchRecords' /\ MailFollowsInsert /\ NoMailOnError]_vars

\* Two ids have been notified and a further submission for one of them
\* was answered 409.
C22_Witness ==
    /\ Len(mailLog) = 2
    /\ Handled(last) /\ last.status = 409
    /\ MailsOf(last.q.id) # {}

\* Every record of the table is in its place, unchanged, after the step.
RecordsKept ==
    /\ Len(responses') >= Len(responses)
    /\ \A i \in 1..Len(responses) : responses'[i] = responses[i]

\* A step in which the handler answers 400 or 409 leaves the table as it
\* was.
RejectionWritesNothing ==
    (last' # last /\ Handled(last') /\ last'.status \in {400, 409}) =>
        responses' = responses

\* C23: no step of the consent service changes or removes a record of the
\* table: the record of an id keeps its response, timestamp, ip and user
\* agent in every later state; and a submission answered with 400 or 409
\* leaves the whole table unchanged.
C23_RecordsImmutable == [][RecordsKept /\ RejectionWritesNothing]_vars

\* A POST with another response for an id that has a record was answered
\* 409, and the record still holds the first response.
C23_Witness ==
    /\ Handled(last) /\ last.method = "POST" /\ last.status = 409
    /\ \E i \in RowsOf(last.q.id) :
           /\ responses[i].response # last.q.response
           /\ responses[i].response \in VALID_RESPONSES
    /\ WellFormed(last.q)

\* The window's count of the IP is full: 10 requests have been let through.
WindowFull(ip) == hits[ip] >= 10

\* The step starts a handler for a request of the IP: the handler answers
\* at once, or is suspended at its notification.
HandlerRuns(ip) ==
    \/ /\ last' # last /\ last'.stage = "handler" /\ last'.ip = ip
       /\ pending' = pending
    \/ \E p \in pending' \ pending : p.ip = ip

\* The step answers a request of the IP from the limiter.
LimiterRejects(ip) ==
    last' # last /\ last'.stage = "limiter" /\ last'.ip = ip

\* C24: in one rate-limit window a handler of an /api/ route runs for a
\* request of an IP only while fewer than 10 requests of that IP have been
\* counted, and the request is counted; once 10 are counted, every request
\* of the IP that reaches the limiter, to /api/submit or /api/health, is
\* answered 429 by the limiter, and no step writes a record or sends a
\* mail for the IP.
C24_TenPerWindow ==
    [][\A ip \in IPs :
          /\ HandlerRuns(ip) => ~WindowFull(ip) /\ hits'[ip] = hits[ip] + 1
          /\ LimiterRejects(ip) =>
                 /\ WindowFull(ip)
                 /\ last'.status = 429
                 /\ responses' = responses /\ mailLog' = mailLog
                 /\ pending' = pending
          /\ WindowFull(ip) =>
                 /\ \A i \in (Len(responses) + 1)..Len(responses') :
                        responses'[i].ip # ip
                 /\ mailLog' = mailLog]_vars

\* The limiter turned a submission down while the table holds a record
\* written earlier in the window.
C24_Witness ==
    /\ last.route = "submit" /\ last.stage = "limiter" /\ last.status = 429
    /\ hits[last.ip] > 10
    /\ Len(responses) > 0

-----------------------------------------------------------------------------
(* Properties of the admin panel                                           *)

ProtectedRoutes ==
    {"user", "individuals", "individual", "upload-document",
     "delete-document", "check-document"}

\* The login handler ran for the last reply (the limiter let it through).
LoginHandled(r) == r.route = "login" /\ r.status # 429

\* The credential records whose user and password both equal the ones of
\* the request.
Matching(req) ==
    {i \in 1..Len(credentialsCache) :
        /\ credentialsCache[i].user = req.username
        /\ credentialsCache[i].password = req.password}

\* C7 as stated: a login that matches no credential record is answered
\* with 401 and leaves the session without a user.
C7_Original ==
    (LoginHandled(adminLast) /\ Matching(adminLast.req) = {}) =>
        /\ adminLast.status = 401
        /\ ~Authed(adminLast.browser)

\* C7 amended: a POST /api/login that the login limiter lets through and
\* whose username and password do not both equal (case-sensitively) the
\* user and password of one loaded credential record is answered with 400
\* when the username or the password is missing or empty and with 401
\* otherwise, and it leaves the session as it was: a session that had no
\* user has none afterwards, so a following request to a protected
\* endpoint on it is still rejected.
C7_FailedLogin ==
    (LoginHandled(adminLast) /\ Matching(adminLast.req) = {}) =>
        /\ adminLast.status =
              IF adminLast.req.username = Missing \/ adminLast.req.password = Missing
              THEN 400 ELSE 401
        /\ Authed(adminLast.browser) => adminLast.authed

\* A login with the name of a record in another case was answered 401 on a
\* session without a user.
C7_Witness ==
    /\ LoginHandled(adminLast) /\ adminLast.status = 401
    /\ adminLast.req.username = "Ana" /\ ~adminLast.authed
    /\ ~Authed(adminLast.browser)

\* C8: a POST /api/login with a matching username and password is answered
\* with 200 and stores the matched record in the session; the user object
\* of the reply, the user object kept in a session and the one GET
\* /api/user returns do not contain the password field.
C8_LoginStoresUserWithoutPassword ==
    [][/\ (LoginHandled(adminLast') /\ Matching(adminLast'.req) # {}) =>
             /\ adminLast'.status = 200
             /\ adminLast'.body.user.user = adminLast'.req.username
             /\ "password" \notin DOMAIN adminLast'.body.user
       /\ (LoginHandled(adminLast') /\ Matching(adminLast'.req) # {}
              /\ adminLast' # adminLast) =>
             LET b == adminLast'.browser
                 c == credentialsCache[Min(Matching(adminLast'.req))]
             IN  /\ cookie'[b] \in DOMAIN store'
                 /\ "user" \in DOMAIN store'[cookie'[b]]
                 /\ store'[cookie'[b]].user = [f \in DOMAIN c \ {"password"} |-> c[f]]
       /\ \A sid \in DOMAIN store' :
             "user" \in DOMAIN store'[sid] =>
                 "password" \notin DOMAIN store'[sid].user
       /\ (adminLast'.route = "user" /\ adminLast'.status = 200) =>
             "password" \notin DOMAIN adminLast'.body.user]_vars

\* GET /api/user returned the user of a session after a login.
C8_Witness ==
    /\ adminLast.route = "user" /\ adminLast.status = 200
    /\ adminLast.body.user.user = "jon"

\* C9: a request to a protected endpoint on a session that has no user is
\* answered with 401 and has no effect: no record is returned, no file is
\* stored and no document is deleted.
C9_ProtectedNeedUser ==
    [][/\ (adminLast'.route \in ProtectedRoutes /\ ~adminLast'.authed) =>
             /\ adminLast'.status = 401
             /\ adminLast'.body = [error |-> "Unauthorized"]
       /\ (adminLast'.route \in ProtectedRoutes /\ ~adminLast'.authed
              /\ adminLast' # adminLast) =>
             UNCHANGED <<uploads, dropboxCI, dropboxLegacy, store, cookie>>]_vars

\* A delete request without a user was turned down while the document it
\* names is stored.
C9_Witness ==
    /\ adminLast.route = "delete-document" /\ adminLast.status = 401
    /\ entriesNamed(uploads \cup dropboxCI \cup dropboxLegacy, adminLast.req.id) # {}

\* C10: after POST /api/logout has succeeded on a session, every later
\* request to a protected endpoint on it is answered with 401 until a new
\* login succeeds on it.
C10_LoggedOutRejected ==
    (adminLast.route \in ProtectedRoutes /\ adminLast.browser \in loggedOut) =>
        adminLast.status = 401

\* A browser that had logged in, and then out, was turned down.
C10_Witness ==
    /\ adminLast.route = "user" /\ adminLast.browser \in loggedOut
    /\ cookie[adminLast.browser] # "none"

-----------------------------------------------------------------------------
(* Properties of the token cache                                           *)

\* The last call returned a token it found in the cache.
ServedFromCache(r) == r.error = "none" /\ r.at >= 0 /\ ~r.refreshed

-----------------------------------------------------------------------------
(* Properties of the service functions                                     *)

\* The remote-storage operations; token validation exists in the backup
\* service and in the document service.
RemoteOperations ==
    {"exportCSVToDropbox", "backupDatabaseToDropbox", "listDropboxBackups",
     "validateDropboxToken", "validateDropboxToken:documents",
     "uploadToDropbox", "checkDocumentInDropbox", "deleteFromDropbox",
     "uploadCSVToDropbox"}

\* The operations of the backup service, configured by DROPBOX_ACCESS_TOKEN;
\* the others are configured by the three OAuth secrets.
AccessTokenOperations ==
    {"exportCSVToDropbox", "backupDatabaseToDropbox", "listDropboxBackups",
     "validateDropboxToken"}

\* The call recorded was made without the secrets of its operation.
Unconfigured(call) ==
    /\ call.op \in RemoteOperations
    /\ IF call.op \in AccessTokenOperations THEN ~dbx ELSE ~dropboxConfigured

\* A structured failure object: success, valid or exists is false.
StructuredFailure(value) ==
    \/ "success" \in DOMAIN value /\ ~value.success /\ "error" \in DOMAIN value
    \/ "valid" \in DOMAIN value /\ ~value.valid /\ "error" \in DOMAIN value
    \/ "exists" \in DOMAIN value /\ ~value.exists

\* The operations that throw when the secrets are missing.
ThrowingOperations ==
    {"uploadToDropbox", "deleteFromDropbox", "uploadCSVToDropbox"}

\* C13 as stated: without the secrets, each of the remote-storage operations
\* returns a structured failure object and does not throw.
C13_Original ==
    Unconfigured(svcLast) =>
        ~svcLast.thrown /\ StructuredFailure(svcLast.value)

\* C13: without the secrets, CSV export, database export, backup listing,
\* token validation and document check return a structured failure object
\* and do not throw; document upload, document delete and CSV upload throw
\* the error 'Dropbox not configured' to their caller. None of them changes
\* the document store, and a next call can always be made.
C13_UnconfiguredFailsCleanly ==
    Unconfigured(svcLast) =>
        /\ IF svcLast.op \in ThrowingOperations
           THEN svcLast.thrown /\ svcLast.value = [message |-> NotConfigured]
           ELSE ~svcLast.thrown /\ StructuredFailure(svcLast.value)
        /\ svcLast.after = svcLast.before
        /\ ENABLED RemoteNext

\* A document delete was called without the secrets and threw.
C13_Witness ==
    /\ Unconfigured(svcLast)
    /\ svcLast.op = "deleteFromDropbox"
    /\ svcLast.thrown

-----------------------------------------------------------------------------
(* Properties of the backup service                                        *)

\* The steps of a full backup that runs all its layers, and of one that runs
\* the local layers only.
AllSteps ==
    <<Started("local"), Finished("local"),
      Started("csvDropbox"), Finished("csvDropbox"),
      Started("databaseDropbox"), Finished("databaseDropbox"),
      Started("cleanup"), Finished("cleanup")>>
LocalSteps ==
    <<Started("local"), Finished("local"), Started("cleanup"), Finished("cleanup")>>

IsPrefix(s, t) == Len(s) <= Len(t) /\ SubSeq(t, 1, Len(s)) = s

\* A full backup has returned and no other is running: svcLast and run.log
\* are those of one run.
FullBackupReturned == svcLast.op = "fullBackup" /\ run.pc = "idle"

\* The results name exactly these layers, in this order, each with its
\* success flag, and the cleanup with its own.
Reports(value, names) ==
    /\ [i \in DOMAIN value.layers |-> value.layers[i][1]] = names
    /\ \A i \in DOMAIN value.layers : "success" \in DOMAIN value.layers[i][2]
    /\ "success" \in DOMAIN value.cleanup

\* C14 as stated: fullBackup runs local snapshot, CSV export, database
\* export and cleanup strictly one after another, does not throw, and its
\* result reports each layer separately.
C14_Original ==
    /\ IsPrefix(run.log, AllSteps)
    /\ FullBackupReturned =>
           /\ ~svcLast.thrown
           /\ run.log = AllSteps
           /\ Reports(svcLast.value, <<"local", "csvDropbox", "databaseDropbox">>)

\* C14: with a Dropbox client, fullBackup runs local snapshot, CSV export,
\* database export and cleanup strictly one after another, whether or not a
\* step fails, and its result reports the three layers and the cleanup
\* separately; without a client it runs the local snapshot and the cleanup
\* only and reports those two. It never throws.
C14_FullBackupInOrder ==
    /\ IsPrefix(run.log, IF dbx THEN AllSteps ELSE LocalSteps)
    /\ FullBackupReturned =>
           /\ ~svcLast.thrown
           /\ run.log = (IF dbx THEN AllSteps ELSE LocalSteps)
           /\ Reports(svcLast.value,
                      IF dbx THEN <<"local", "csvDropbox", "databaseDropbox">>
                      ELSE <<"local">>)

\* A full backup whose local snapshot and CSV export failed and whose
\* database export and cleanup succeeded.
C14_Witness ==
    /\ FullBackupReturned
    /\ dbx
    /\ ~svcLast.thrown
    /\ ~svcLast.value.layers[1][2].success
    /\ ~svcLast.value.layers[2][2].success
    /\ svcLast.value.layers[3][2].success
    /\ svcLast.value.cleanup.success

\* The files named data_*.db of a directory, and those of them older than
\* n days on the given day.
NamedSnapshot(dir) == {f \in dir : f.name[1] = "data_" /\ f.name[3] = ".db"}
OlderThan(dir, day, n) == {f \in NamedSnapshot(dir) : day - f.mtime > n}

\* The files a recorded cleanOldBackups call had to delete.
Due(call) == OlderThan(call.before.dir, call.before.day, call.id)

\* The directory with snapshots aged 10 and 3 days.
TenAndThree(at) ==
    /\ at.day = 0
    /\ at.dir = {BackupFile(<<"data_", -10, ".db">>, -10),
                 BackupFile(<<"data_", -3, ".db">>, -3)}

\* C15 as stated: cleanOldBackups(retentionDays) deletes exactly the files
\* named data_*.db that are older than retentionDays days, and the deleted
\* and kept counts it reports add up to the number of such files at the
\* start.
C15_Original ==
    svcLast.op = "cleanOldBackups" =>
        /\ svcLast.after.dir = svcLast.before.dir \ Due(svcLast)
        /\ "deleted" \in DOMAIN svcLast.value
        /\ svcLast.value.deleted + svcLast.value.kept
               = Cardinality(NamedSnapshot(svcLast.before.dir))

\* C15: a cleanOldBackups(retentionDays) call that reports success has
\* deleted exactly the files named data_*.db older than retentionDays days
\* and kept every other file, and its deleted and kept counts are the
\* numbers of files deleted and of data_*.db files kept; a call that reports
\* failure has deleted only files among those and reports no counts. With
\* retention 7 and files aged 10 and 3 days a successful call deletes
\* exactly the 10-day file.
C15_CleanupDeletesOldSnapshots ==
    svcLast.op = "cleanOldBackups" =>
        /\ ~svcLast.thrown
        /\ svcLast.after.dir \subseteq svcLast.before.dir
        /\ (svcLast.before.dir \ svcLast.after.dir) \subseteq Due(svcLast)
        /\ IF svcLast.value.success
           THEN /\ svcLast.after.dir = svcLast.before.dir \ Due(svcLast)
                /\ svcLast.value.deleted = Cardinality(Due(svcLast))
                /\ svcLast.value.deleted + svcLast.value.kept
                       = Cardinality(NamedSnapshot(svcLast.before.dir))
                /\ (TenAndThree(svcLast.before) /\ svcLast.id = 7) =>
                       svcLast.after.dir = {BackupFile(<<"data_", -3, ".db">>, -3)}
           ELSE "deleted" \notin DOMAIN svcLast.value

\* The cleanup with retention 7 of the directory with snapshots aged 10 and
\* 3 days succeeded and deleted one file.
C15_Witness ==
    /\ svcLast.op = "cleanOldBackups"
    /\ svcLast.id = 7
    /\ TenAndThree(svcLast.before)
    /\ svcLast.value.success
    /\ svcLast.value.deleted = 1
    /\ svcLast.value.kept = 1

-----------------------------------------------------------------------------
(* Properties of the document service                                      *)

\* The files of a folder whose name without extension is the id.
FilesNamed(folder, id) == {f \in folder : f # CIFolder /\ f[1] = id}

\* The files the search of a recorded call has to find: those named by the
\* id in the CI folder when its listing succeeded and has one, else those
\* in the legacy folder when its listing succeeded.
Searched(call) ==
    LET ciListed == call.remote.listCI /\ CIFolder \in call.before.legacy IN
    IF ciListed /\ FilesNamed(call.before.ci, call.id) # {}
    THEN {<<"CI", f>> : f \in FilesNamed(call.before.ci, call.id)}
    ELSE IF call.remote.listLegacy /\ FilesNamed(call.before.legacy, call.id) # {}
    THEN {<<"legacy", f>> : f \in FilesNamed(call.before.legacy, call.id)}
    ELSE {}

\* The folders without the file e, given with its folder.
Without(folders, e) ==
    Folders(IF e[1] = "CI" THEN folders.ci \ {e[2]} ELSE folders.ci,
            IF e[1] = "legacy" THEN folders.legacy \ {e[2]} ELSE folders.legacy)

\* C16: checkDocumentInDropbox and deleteFromDropbox look for the file whose
\* name without extension is the id, in the CI folder first and in the
\* legacy folder next, and act on the first match; a folder that cannot be
\* listed is passed over. With no such file the check reports exists: false
\* and the delete throws and deletes nothing.
C16_Original ==
    /\ (svcLast.op = "checkDocumentInDropbox" /\ dropboxConfigured) =>
           IF Searched(svcLast) = {}
           THEN ~svcLast.value.exists
           ELSE /\ svcLast.value.exists
                /\ \E e \in Searched(svcLast) :
                       /\ svcLast.value.filename = e[2]
                       /\ svcLast.value.shareUrl[2] = e[1]
    /\ (svcLast.op = "deleteFromDropbox" /\ dropboxConfigured) =>
           IF Searched(svcLast) = {} \/ ~svcLast.remote.op
           THEN svcLast.thrown /\ svcLast.after = svcLast.before
           ELSE /\ ~svcLast.thrown
                /\ \E e \in Searched(svcLast) :
                       svcLast.after = Without(svcLast.before, e)

-----------------------------------------------------------------------------
(* Properties of searchIndividuals and sortIndividuals                     *)

\* Two characters that are the same letter, in whatever case.
SameLetter(c, d) ==
    \/ c = d
    \/ \E k \in 1..Len(UpperCase) : {c, d} = {UpperCase[k], LowerCase[k]}

\* q is a substring of value, case apart.
ContainsNoCase(value, q) ==
    \E i \in 0..(Len(value) - Len(q)) :
        \A k \in 1..Len(q) : SameLetter(value[i + k], q[k])

\* q without the blanks at its ends.
Trimmed(q) ==
    LET inked == {i \in 1..Len(q) : q[i] # " "} IN
    IF inked = {} THEN <<>>
    ELSE SubSeq(q, CHOOSE i \in inked : \A j \in inked : i <= j,
                   CHOOSE i \in inked : \A j \in inked : i >= j)

\* The places of the records with a field value that contains q.
Hits(given, q) ==
    {i \in 1..Len(given) :
        \E field \in DOMAIN given[i] : ContainsNoCase(given[i][field], q)}

\* C17: searchIndividuals returns, in their original order, exactly the
\* records with a field value that contains the trimmed query as a
\* case-insensitive substring; an empty or blank query returns the array as
\* it is; a query found in one record only returns that record alone.
C17_SearchReturnsMatches ==
    fnLast.fn = "searchIndividuals" =>
        LET q == Trimmed(fnLast.args[1])
            found == Hits(fnLast.given, q)
        IN  /\ fnLast.given = listGiven
            /\ IF q = <<>>
               THEN fnLast.out = fnLast.given
               ELSE /\ Len(fnLast.out) = Cardinality(found)
                    /\ \A k \in 1..Len(fnLast.out) :
                           \E i \in found :
                               /\ Cardinality({j \in found : j <= i}) = k
                               /\ fnLast.out[k] = fnLast.given[i]
                    /\ \A i \in found :
                           found = {i} => fnLast.out = <<fnLast.given[i]>>

\* A query in capitals with blanks around it was found in the second of
\* three records only.
C17_Witness ==
    /\ fnLast.fn = "searchIndividuals"
    /\ fnLast.args[1] = <<" ", "A", "N", " ">>
    /\ Len(fnLast.given) = 3
    /\ Hits(fnLast.given, <<"A", "N">>) = {2}
    /\ fnLast.out = <<fnLast.given[2]>>

\* Every record of the array has a value of the field that parses as a
\* number.
LooksNumeric(given, field) ==
    \A i \in 1..Len(given) :
        field \in DOMAIN given[i] /\ ~parseFloat(given[i][field]).nan

\* How often a record is in an array.
Count(array, r) == Cardinality({i \in 1..Len(array) : array[i] = r})

\* C18: on a field whose values look numeric, sortIndividuals with 'asc'
\* returns the records with non-decreasing parsed values of the field and
\* with 'desc' with non-increasing ones; the array returned is a
\* permutation of the one given, which is left as it was.
C18_SortOrdersNumbers ==
    fnLast.fn = "sortIndividuals" =>
        LET field == fnLast.args[1]
            direction == fnLast.args[2]
            parsed(k) == parseFloat(fnLast.out[k][field]).tenths
        IN  /\ fnLast.given = listGiven
            /\ Len(fnLast.out) = Len(fnLast.given)
            /\ \A r \in SampleRecords :
                   Count(fnLast.out, r) = Count(fnLast.given, r)
            /\ LooksNumeric(fnLast.given, field) =>
                   \A k \in 1..(Len(fnLast.out) - 1) :
                       IF direction = "asc" THEN parsed(k) <= parsed(k + 1)
                       ELSE parsed(k) >= parsed(k + 1)

\* The ages 10, 9 and 2.5 were sorted in ascending order.
C18_Witness ==
    /\ fnLast.fn = "sortIndividuals"
    /\ fnLast.args = <<"age", "asc">>
    /\ fnLast.given = <<RecAna, RecAne, RecJon>>
    /\ fnLast.out = <<RecJon, RecAne, RecAna>>

-----------------------------------------------------------------------------
(* Properties of the admin front end                                       *)

\* The cell shows the document link and a delete button whose click calls
\* handleCIDelete for the id.
ShowsLinkAndDelete(td, idOsakidetza) ==
    /\ \E j \in DOMAIN td.children : td.children[j].tag = "a"
    /\ \E j \in DOMAIN td.children :
           td.children[j] = DeleteButton(idOsakidetza)

\* The last step was the end of a delete attempt that failed, and the
\* check request made to render the cell again found the document.
FailedAndStillThere ==
    /\ frontLast.op = "deleteEnded"
    /\ frontLast.caught
    /\ frontLast.data.success
    /\ frontLast.data.exists

\* C19: after a delete attempt that failed, whatever the number of failed
\* attempts before it, the CI cell of a document that still exists shows
\* the document link and a delete button whose click starts a new delete
\* attempt.
C19_Original ==
    FailedAndStillThere
        => ShowsLinkAndDelete(tdCI[frontLast.row],
                              Rows[frontLast.row].id_osakidetza)

-----------------------------------------------------------------------------
(* Properties of the document routes of the admin panel                    *)

\* The step answers a request to the route that passed requireAuth.
Answered(route) ==
    /\ adminLast' # adminLast
    /\ adminLast'.route = route
    /\ adminLast'.authed

\* Something went from the remote folders, from the upload directory.
RemoteDeleted == dropboxCI' # dropboxCI \/ dropboxLegacy' # dropboxLegacy
LocalDeleted == uploads' # uploads

\* Where the step deleted, in the words of deletedFrom.
DeletedFrom ==
    IF RemoteDeleted THEN (IF LocalDeleted THEN "both" ELSE "dropbox")
    ELSE "local"

UploadAnswered ==
    /\ Answered("upload-document")
    /\ adminLast'.req.id_osakidetza # ""
    /\ adminLast'.req.ext \in {".pdf", ".jpg", ".jpeg", ".png", ".doc", ".docx"}
    /\ adminLast'.req.mimeOk

\* The name multer gives the uploaded file, the name it gets in remote
\* storage.
LocalFile(req) == <<IF req.id_ci = "" THEN "undefined" ELSE req.id_ci, req.ext>>
RemoteFile(req) == <<req.id_osakidetza, req.ext>>

\* The reply of a remote upload, of the local fallback; each with where the
\* uploaded file is after the step.
RemoteUploadReply ==
    /\ adminLast'.body.url[1] = "dropbox"
    /\ RemoteFile(adminLast'.req) \in dropboxCI'
    /\ LocalFile(adminLast'.req) \notin uploads'

LocalFallbackReply ==
    /\ adminLast'.body.url = <<"/documents/", LocalFile(adminLast'.req)>>
    /\ LocalFile(adminLast'.req) \in uploads'
    /\ dropboxCI' = dropboxCI /\ dropboxLegacy' = dropboxLegacy

\* After the step a document of the request's id is in remote storage, in
\* local storage.
InRemoteAfter ==
    FilesNamed(dropboxCI' \cup dropboxLegacy', adminLast'.req.id_osakidetza) # {}
InLocalAfter ==
    \/ FilesNamed(uploads', adminLast'.req.id_osakidetza) # {}
    \/ LocalFile(adminLast'.req) \in uploads'

\* The reply is a success that goes with where the uploaded file is: without
\* a warning the remote reply, with one the local fallback.
UploadReplied ==
    /\ adminLast'.status = 200 /\ adminLast'.body.success
    /\ IF adminLast'.body.warning THEN LocalFallbackReply
       ELSE RemoteUploadReply

UploadSucceededFor(id) ==
    /\ adminLast.route = "upload-document"
    /\ adminLast.status = 200 /\ adminLast.body.success
    /\ adminLast.req.id_osakidetza = id

\* C27: when an upload for id X has been answered with success, the check
\* of X that follows reports exists: true with the url of a document of X,
\* whether the upload went to remote storage or to the local fallback.
C27_Original ==
    [][\A id \in DocIds :
          (UploadSucceededFor(id) /\ Answered("check-document")
              /\ adminLast'.req.id = id) =>
             /\ adminLast'.body.exists
             /\ adminLast'.body.url # <<>>]_vars

\* The last reply was a success of the delete route for the id.
DeleteSucceededFor(id) ==
    /\ adminLast.route = "delete-document"
    /\ adminLast.status = 200 /\ adminLast.body.success
    /\ adminLast.req.id = id

\* The entries named by the id that the three places held, each with its
\* place.
EntriesOf(held, id) ==
    {<<"CI", f>> : f \in {g \in held.ci : g[1] = id}}
        \cup {<<"legacy", f>> : f \in {g \in held.legacy : g[1] = id}}
        \cup {<<"local", f>> : f \in {g \in held.uploads : g[1] = id}}

-----------------------------------------------------------------------------
(* Properties of the lists of individuals                                  *)

\* The number of the list assigned to a user: list 1 when the cell is empty.
ListAssigned(user) ==
    IF user.list = "" THEN 1
    ELSE CASE user.list = "1" -> 1
           [] user.list = "2" -> 2
           [] user.list = "3" -> 3

\* The list whose file answers for a user: the user's own when its file
\* exists, list 1 otherwise.
ListRead(user) ==
    IF ListAssigned(user) \in DOMAIN individualsFiles THEN ListAssigned(user)
    ELSE 1

\* The records of the file of list n, none when there is no such file.
RecordsOfList(n) ==
    IF n \in DOMAIN individualsFiles
    THEN {individualsFiles[n][i] : i \in 1..Len(individualsFiles[n])}
    ELSE {}

\* The records a reply of one of the two routes carries.
RecordsReturned(reply) ==
    IF reply.route = "individuals"
    THEN {reply.body.data[i] : i \in 1..Len(reply.body.data)}
    ELSE {reply.body.data}

\* C29: GET /api/individuals and GET /api/individuals/:id return only
\* records of the file of the list assigned to the user of the session
\* (list 1 when the user has no list), and records of list 1 instead only
\* when the file of the user's own list does not exist.
C29_OwnListOnly ==
    [][(Answered("individuals") \/ Answered("individual"))
          /\ adminLast'.status = 200 =>
          RecordsReturned(adminLast') \subseteq
              RecordsOfList(ListRead(reqSession(adminLast'.browser).user))]_vars

\* A user whose list has no file of its own was answered with the records
\* of list 1.
C29_Witness ==
    /\ adminLast.route = "individuals"
    /\ adminLast.status = 200
    /\ requireAuth(reqSession(adminLast.browser))
    /\ reqSession(adminLast.browser).user.list = "3"
    /\ 3 \notin DOMAIN individualsFiles
    /\ adminLast.body.data = IndividualsList1

-----------------------------------------------------------------------------
(* Properties of the local snapshots                                       *)

\* The step is a call of createLocalBackup() that reports success.
SnapshotTaken ==
    /\ svcLast'.op = "createLocalBackup"
    /\ svcLast'.value.success
    /\ UNCHANGED <<today, run, database>>

\* The names of the files of a directory, those of the snapshot of a day.
NamesIn(dir) == {f.name : f \in dir}
SnapshotsOf(dir, day) == {f \in dir : f.name = <<"data_", day, ".db">>}

\* C30: createLocalBackup names the snapshot after the date only: after
\* each successful snapshot the directory holds exactly one snapshot file
\* of the date, with the content the database has at that run, and a run
\* on a date that has a snapshot leaves the set of file names as it was.
C30_OneSnapshotPerDate ==
    [][SnapshotTaken =>
          /\ Cardinality(SnapshotsOf(backupDir', today)) = 1
          /\ \A f \in SnapshotsOf(backupDir', today) : f.content = database
          /\ NamesIn(backupDir') = NamesIn(backupDir) \cup {<<"data_", today, ".db">>}
          /\ (SnapshotsOf(backupDir, today) # {} =>
                 NamesIn(backupDir') = NamesIn(backupDir))]_vars

\* A second snapshot was taken on a date, after a write to the database:
\* the file of the date held the old content before and holds the new one.
C30_Witness ==
    /\ svcLast.op = "createLocalBackup"
    /\ svcLast.value.success
    /\ \E f \in SnapshotsOf(svcLast.before.dir, svcLast.before.day) : f.content = 0
    /\ \E f \in SnapshotsOf(svcLast.after.dir, svcLast.after.day) : f.content = 1
    /\ NamesIn(svcLast.after.dir) = NamesIn(svcLast.before.dir)
    /\ database = 1

====
